---- MODULE Spec2Model ----
(***************************************************************************)
(* CalibreSplitter Pro: the chapter detection and extraction engine.       *)
(*                                                                         *)
(* File names are sequences of characters; a character is a one-character  *)
(* string, or a "U+XXXX" token for a code point outside ASCII.             *)
(***************************************************************************)
EXTENDS Integers, Sequences, FiniteSets, TLC

VARIABLES
    san_pc,      \* sanitize_filename driver: "idle" | "start" | "once" | "twice"
    san_in,      \* the string handed to sanitize_filename
    san_out,     \* sanitize_filename(san_in)
    san_again,   \* sanitize_filename(san_out)
    nm_pc,       \* get_safe_chapter_filename driver: "idle" | "start" | "done"
    nm_args,     \* [document_title, chapter_number, chapter_title, extension]
    nm_out,      \* the file name get_safe_chapter_filename returned
    an_pc,       \* analyze_chapters: "idle" | "init" | "structural" | "resolved"
                 \*   | "heuristic" | "normalized" | "error"
    an_doc,      \* the document analysed: [fmt, readable, total_pages]
    an_tier,     \* the tier that produced an_chapters: "none" | "outline" | "text"
                 \*   | "toc" | "content"
    an_bounded,  \* TRUE once _set_chapter_end_pages has run on an_chapters
    an_chapters, \* the chapter list of analyze_chapters
    an_outline,  \* the page references of the bookmarks read, in document order
    an_toc,      \* the table of contents read
    an_texts,    \* the page texts read by the text tier
    fs,          \* the file system: [dirs, readonly, files, bulk]
    eu_pc,       \* ensure_unique_filename: "idle" | "call" | "loop" | "done"
    eu_path,     \* ensure_unique_filename: filepath
    eu_counter,  \* ensure_unique_filename: counter
    eu_result,   \* ensure_unique_filename: the path returned
    sp_pc,       \* split: "idle" | "start" | "chapter" | "unique" | "returned" | "raised"
    sp_doc,      \* split: document (file_type, title, pages or items)
    sp_settings, \* split: settings
    sp_chapters, \* split: chapters, with split_status and output_file_path
    sp_k,        \* split: position of the for loop in chapters
    sp_ext,      \* split: output_extension
    sp_events,   \* split: what happened to each chapter the loop has passed
    sp_output_files, \* split: output_files
    sp_cancel,   \* split: a cancel of the document has been requested
    cw_pc,       \* per worker: "idle" | "call" | "loop" | "write" | "done"
    cw_path,     \* per worker: the candidate path given to ensure_unique_filename
    cw_counter,  \* per worker: counter of ensure_unique_filename
    cw_result,   \* per worker: output_path
    gi_pc,       \* _get_chapter_items: "idle" | "call" | "done"
    gi_args,     \* _get_chapter_items: the book's document items, chapter.xpath
    gi_out,      \* _get_chapter_items: the items returned
    md_pc,       \* read_*_document: "idle" | "call" | "loaded" | "raised"
    md_file,     \* read_*_document: the file at file_path
    md_doc,      \* read_*_document: the Document returned
    tr_pc,       \* process_outline_item / process_toc_item: "idle" | "run" | "done"
    tr_graph,    \* the outline or table of contents: node -> [kind, children]
    tr_stack,    \* the active calls on group nodes: [node, next child]
    tr_visits,   \* node -> number of calls made on it
    tr_found,    \* number of chapters appended
    ct_pc,       \* _extract_chapters_from_content on one item: "idle" | "call" | "done"
    ct_item,     \* the content item
    ct_out       \* the chapter made for it, if any

san_vars == <<san_pc, san_in, san_out, san_again>>
nm_vars == <<nm_pc, nm_args, nm_out>>
an_vars == <<an_pc, an_doc, an_tier, an_bounded, an_chapters, an_outline, an_toc, an_texts>>
eu_vars == <<eu_pc, eu_path, eu_counter, eu_result>>
sp_vars == <<sp_pc, sp_doc, sp_settings, sp_chapters, sp_k, sp_ext, sp_events,
             sp_output_files, sp_cancel>>
cw_vars == <<cw_pc, cw_path, cw_counter, cw_result>>
gi_vars == <<gi_pc, gi_args, gi_out>>
md_vars == <<md_pc, md_file, md_doc>>
tr_vars == <<tr_pc, tr_graph, tr_stack, tr_visits, tr_found>>
ct_vars == <<ct_pc, ct_item, ct_out>>

\* what the actions of one component leave alone
san_others == <<nm_vars, an_vars, eu_vars, sp_vars, cw_vars, fs, gi_vars, md_vars, tr_vars, ct_vars>>
nm_others == <<san_vars, an_vars, eu_vars, sp_vars, cw_vars, fs, gi_vars, md_vars, tr_vars, ct_vars>>
an_others == <<san_vars, nm_vars, eu_vars, sp_vars, cw_vars, fs, gi_vars, md_vars, tr_vars, ct_vars>>
eu_others == <<san_vars, nm_vars, an_vars, sp_vars, cw_vars, gi_vars, md_vars, tr_vars, ct_vars>>
sp_others == <<san_vars, nm_vars, an_vars, cw_vars, sp_cancel, gi_vars, md_vars, tr_vars, ct_vars>>
cw_others == <<san_vars, nm_vars, an_vars, eu_vars, sp_vars, gi_vars, md_vars, tr_vars, ct_vars>>
gi_others == <<san_vars, nm_vars, an_vars, eu_vars, sp_vars, cw_vars, fs, md_vars, tr_vars, ct_vars>>
md_others == <<san_vars, nm_vars, an_vars, eu_vars, sp_vars, cw_vars, fs, gi_vars, tr_vars, ct_vars>>
tr_others == <<san_vars, nm_vars, an_vars, eu_vars, sp_vars, cw_vars, fs, gi_vars, md_vars, ct_vars>>
ct_others == <<san_vars, nm_vars, an_vars, eu_vars, sp_vars, cw_vars, fs, gi_vars, md_vars, tr_vars>>

vars == <<san_pc, san_in, san_out, san_again, nm_pc, nm_args, nm_out,
          an_pc, an_doc, an_tier, an_bounded, an_chapters, an_outline, an_toc, an_texts,
          fs, eu_pc, eu_path, eu_counter, eu_result,
          sp_pc, sp_doc, sp_settings, sp_chapters, sp_k, sp_ext, sp_events,
          sp_output_files, sp_cancel, cw_pc, cw_path, cw_counter, cw_result,
          gi_pc, gi_args, gi_out, md_pc, md_file, md_doc,
          tr_pc, tr_graph, tr_stack, tr_visits, tr_found, ct_pc, ct_item, ct_out>>

(***************************************************************************)
(* Bounds of the model.                                                    *)
(***************************************************************************)
MaxParts == 3       \* pieces concatenated into one input string
MaxTitleParts == 2  \* pieces concatenated into one chapter title
PadLen == 300       \* length of the run of letters that makes a string over-long
MaxPages == 3       \* pages of a PDF document
MaxLeaves == 3      \* leaves of a PDF outline or of an EPUB table of contents
MaxItems == 3       \* content documents of an EPUB
MaxPatterns == 2    \* heading patterns of FileConstants.CHAPTER_PATTERNS
MaxTaken == 2       \* numbered names listed one by one in a directory
MaxChapters == 2    \* chapters handed to a split
MaxWorkers == 2     \* threads that write into one output directory
MaxNodes == 3       \* nodes of an outline or TOC given as an object graph
MaxDepth == 4       \* nested calls at which the interpreter raises RecursionError

(***************************************************************************)
(* Characters and strings.                                                 *)
(***************************************************************************)
NoChar == ""        \* marks a deleted position; never a character of a string

TAB == "\t"
LF == "\n"
CR == "\r"
FF == "\f"
VT == "U+000B"
FullwidthLess == "U+FF1C"
Ellipsis == "U+2026"
IdeographicSpace == "U+3000"
Dai == "U+7B2C"
Shou == "U+7AE0"

LowerLetters == <<"a","b","c","d","e","f","g","h","i","j","k","l","m",
                  "n","o","p","q","r","s","t","u","v","w","x","y","z">>
UpperLetters == <<"A","B","C","D","E","F","G","H","I","J","K","L","M",
                  "N","O","P","Q","R","S","T","U","V","W","X","Y","Z">>

UpperChar(c) ==
    IF \E i \in 1..26 : LowerLetters[i] = c
    THEN UpperLetters[CHOOSE i \in 1..26 : LowerLetters[i] = c]
    ELSE c

LowerChar(c) ==
    IF \E i \in 1..26 : UpperLetters[i] = c
    THEN LowerLetters[CHOOSE i \in 1..26 : UpperLetters[i] = c]
    ELSE c

Upper(s) == [i \in 1..Len(s) |-> UpperChar(s[i])]
Lower(s) == [i \in 1..Len(s) |-> LowerChar(s[i])]

MinOf(S) == CHOOSE i \in S : \A j \in S : i <= j
MaxOf(S) == CHOOSE i \in S : \A j \in S : j <= i

Run(c, n) == [i \in 1..n |-> c]

RECURSIVE Join(_)
Join(parts) == IF parts = <<>> THEN <<>> ELSE Head(parts) \o Join(Tail(parts))

EndsWith(s, t) ==
    /\ Len(t) <= Len(s)
    /\ SubSeq(s, Len(s) - Len(t) + 1, Len(s)) = t

\* str.strip(chars): drop the leading and the trailing characters that are in chars
Strip(s, chars) ==
    LET n == Len(s)
        keep == {i \in 1..n : s[i] \notin chars}
    IN  IF keep = {} THEN <<>>
        ELSE SubSeq(s, MinOf(keep), n + 1 - MinOf({n + 1 - i : i \in keep}))

\* re.sub(X+, r, s) for a class X of single characters and a one-character r
CollapseRuns(s, cls, r) ==
    LET marked == [i \in 1..Len(s) |->
                     IF s[i] \in cls
                     THEN (IF i > 1 /\ s[i - 1] \in cls THEN NoChar ELSE r)
                     ELSE s[i]]
    IN  SelectSeq(marked, LAMBDA c : c # NoChar)

\* unicodedata.normalize('NFKC', c) for one character
NFKCChar(c) ==
    CASE c = FullwidthLess -> <<"<">>
      [] c = Ellipsis -> <<".", ".", ".">>
      [] c = IdeographicSpace -> <<" ">>
      [] OTHER -> <<c>>

\* the longest expansion of one character
NFKCWidth == Len(NFKCChar(Ellipsis))

NFKC(s) ==
    LET wide == [k \in 1..(NFKCWidth * Len(s)) |->
                   LET m == NFKCChar(s[((k - 1) \div NFKCWidth) + 1])
                       j == ((k - 1) % NFKCWidth) + 1
                   IN  IF j <= Len(m) THEN m[j] ELSE NoChar]
    IN  SelectSeq(wide, LAMBDA c : c # NoChar)

\* pathlib: Path(name).stem and Path(name).suffix of a name without separators
PathName(s) == IF s = <<".">> THEN <<>> ELSE s

DotIndex(s) ==
    LET name == PathName(s)
        dots == {i \in 1..Len(name) : name[i] = "."}
    IN  IF dots = {} THEN 0
        ELSE Len(name) + 1 - MinOf({Len(name) + 1 - i : i \in dots})

HasSuffix(s) == 1 < DotIndex(s) /\ DotIndex(s) < Len(PathName(s))

Stem(s) == IF HasSuffix(s) THEN SubSeq(PathName(s), 1, DotIndex(s) - 1) ELSE PathName(s)

Suffix(s) ==
    IF HasSuffix(s) THEN SubSeq(PathName(s), DotIndex(s), Len(PathName(s))) ELSE <<>>

(***************************************************************************)
(* file_utils.py: sanitize_filename                                        *)
(***************************************************************************)
INVALID_FILENAME_CHARS == {"<", ">", ":", "\"", "/", "\\", "|", "?", "*", LF, CR, TAB}

RESERVED_NAMES ==
    {<<"C","O","N">>, <<"P","R","N">>, <<"A","U","X">>, <<"N","U","L">>}
    \cup {<<"C","O","M",d>> : d \in {"1","2","3","4","5","6","7","8","9"}}
    \cup {<<"L","P","T",d>> : d \in {"1","2","3","4","5","6","7","8","9"}}

DEFAULT_REPLACEMENT == "_"
DEFAULT_MAX_LENGTH == 255
TRUNCATE_BUFFER == 10

Untitled == <<"u","n","t","i","t","l","e","d">>
Truncated == <<"t","r","u","n","c","a","t","e","d">>
Dots3 == <<".", ".", ".">>

ControlChars == {LF, CR, TAB, FF, VT}
Whitespace == {" ", LF, CR, TAB, FF, VT}

\* line 45: re.sub(r'[\n\r\t\f\v]', ' ', filename)
ReplaceControl(s) == [i \in 1..Len(s) |-> IF s[i] \in ControlChars THEN " " ELSE s[i]]

\* line 54: re.sub(INVALID_FILENAME_CHARS, replacement, filename)
ReplaceInvalid(s, replacement) ==
    [i \in 1..Len(s) |-> IF s[i] \in INVALID_FILENAME_CHARS THEN replacement ELSE s[i]]

\* lines 65-67: prefix the replacement when the stem is a reserved device name
PrefixReservedNever(s, replacement) == s

PrefixReserved(s, replacement) ==
    IF Upper(Stem(s)) \in RESERVED_NAMES THEN <<replacement>> \o s ELSE s

\* lines 70-78: shorten an over-long name, keeping the extension
Shorten(s, max_length) ==
    IF Len(s) > max_length
    THEN LET name == Stem(s)
             ext == Suffix(s)
             max_name_length == max_length - Len(ext) - TRUNCATE_BUFFER
         IN  IF max_name_length > 0
             THEN SubSeq(name, 1, IF max_name_length < Len(name)
                                  THEN max_name_length ELSE Len(name))
                  \o Dots3 \o ext
             ELSE Truncated \o ext
    ELSE s

\* lines 81-82: the fallback for an empty result
FallbackEmpty(s, replacement) ==
    IF s = <<>> \/ s = <<replacement>> THEN Untitled ELSE s

sanitize_filename(filename, replacement, max_length) ==
    IF filename = <<>> THEN Untitled
    ELSE LET s1 == NFKC(filename)
             s2 == ReplaceControl(s1)
             s3 == CollapseRuns(s2, Whitespace, " ")
             s4 == Strip(s3, {" ", "."})
             s5 == ReplaceInvalid(s4, replacement)
             s6 == CollapseRuns(s5, {replacement}, replacement)
             s7 == Strip(s6, {replacement, " "})
             s8 == PrefixReserved(s7, replacement)
             s9 == Shorten(s8, max_length)
         IN  FallbackEmpty(s9, replacement)

sanitize(s) == sanitize_filename(s, DEFAULT_REPLACEMENT, DEFAULT_MAX_LENGTH)

(***************************************************************************)
(* Inputs of sanitize_filename: up to MaxParts pieces, with a run of       *)
(* PadLen letters optionally inserted after the first piece.               *)
(***************************************************************************)
Pieces ==
    { <<"a">>, <<" ">>, <<".">>, <<"_">>, <<"<">>, <<TAB>>, <<Ellipsis>>,
      <<"C","O","N">>, <<"n","u","l">> }

PartSeqs == UNION {[1..n -> Pieces] : n \in 0..MaxParts}

Padded(parts, pad) ==
    IF parts = <<>> THEN Run("a", pad)
    ELSE Head(parts) \o Run("a", pad) \o Join(Tail(parts))

SanInputs == {Padded(p, k) : p \in PartSeqs, k \in {0, PadLen}}

SanIdle ==
    /\ san_pc = "idle"
    /\ san_in = <<>>
    /\ san_out = <<>>
    /\ san_again = <<>>

SanInit ==
    /\ san_pc = "start"
    /\ san_in \in SanInputs
    /\ san_out = <<>>
    /\ san_again = <<>>

Sanitize ==
    /\ san_pc = "start"
    /\ san_out' = sanitize(san_in)
    /\ san_pc' = "once"
    /\ UNCHANGED <<san_in, san_again, san_others>>

SanitizeAgain ==
    /\ san_pc = "once"
    /\ san_again' = sanitize(san_out)
    /\ san_pc' = "twice"
    /\ UNCHANGED <<san_in, san_out, san_others>>

SanNext == Sanitize \/ SanitizeAgain

(***************************************************************************)
(* file_utils.py: get_safe_chapter_filename                                *)
(***************************************************************************)
NAME_LIMIT == 200
NAME_KEEP == 190

Digits == <<"0","1","2","3","4","5","6","7","8","9">>

RECURSIVE Decimal(_)
Decimal(n) ==
    IF n < 10 THEN <<Digits[n + 1]>> ELSE Decimal(n \div 10) \o <<Digits[(n % 10) + 1]>>

\* f"{chapter_number:02d}"
Format02d(n) ==
    IF n < 0 THEN <<"-">> \o Decimal(0 - n)
    ELSE IF n < 10 THEN <<"0">> \o Decimal(n)
    ELSE Decimal(n)

\* the characters str.strip() removes
PyWhitespace == Whitespace \cup {IdeographicSpace}

\* line 214: chapter_title and chapter_title.strip()
HasTitleNoStrip(chapter_title) == chapter_title # <<>>

HasTitle(chapter_title) ==
    chapter_title # <<>> /\ Strip(chapter_title, PyWhitespace) # <<>>

\* lines 224-225: the extension is added unless the name already ends with it
AddExtensionAlways(filename, extension) == filename \o extension

AddExtension(filename, extension) ==
    IF EndsWith(Lower(filename), Lower(extension)) THEN filename
    ELSE filename \o extension

\* filename[:-len(extension)]
DropLast(s, k) == IF k = 0 THEN <<>> ELSE SubSeq(s, 1, Len(s) - k)

Prefix(s, k) == SubSeq(s, 1, IF k < Len(s) THEN k ELSE Len(s))

\* lines 228-230: the final length limit
LimitName(filename, extension) ==
    IF Len(filename) > NAME_LIMIT
    THEN Prefix(DropLast(filename, Len(extension)), NAME_KEEP) \o Dots3 \o extension
    ELSE filename

TitledName(chapter_number, safe_title) ==
    Format02d(chapter_number) \o <<"_">> \o safe_title

UntitledName(safe_doc_title, chapter_number) ==
    safe_doc_title \o <<"_", Dai>> \o Format02d(chapter_number) \o <<Shou>>

get_safe_chapter_filename(document_title, chapter_number, chapter_title, extension) ==
    LET filename ==
            IF HasTitle(chapter_title)
            THEN TitledName(chapter_number, sanitize(chapter_title))
            ELSE UntitledName(sanitize(document_title), chapter_number)
    IN  LimitName(AddExtension(filename, extension), extension)

ExtPdf == <<".", "p", "d", "f">>
ExtEpub == <<".", "e", "p", "u", "b">>

TitlePieces ==
    { <<"I">>, <<" ">>, <<TAB>>, <<IdeographicSpace>>, <<"<">>, <<"C","O","N">>,
      ExtEpub, <<".", "P", "D", "F">> }

TitlePartSeqs == UNION {[1..n -> TitlePieces] : n \in 0..MaxTitleParts}

Titles == {Padded(p, k) : p \in TitlePartSeqs, k \in {0, PadLen}}

DocTitles == {<<>>, <<"D", "o", "c">>}

ChapterNumbers == {1, 10, 123}

NameArgs ==
    [document_title : DocTitles, chapter_number : ChapterNumbers,
     chapter_title : Titles, extension : {ExtPdf, ExtEpub}]

NmIdle ==
    /\ nm_pc = "idle"
    /\ nm_args = <<>>
    /\ nm_out = <<>>

NmInit ==
    /\ nm_pc = "start"
    /\ nm_args \in NameArgs
    /\ nm_out = <<>>

GetSafeChapterFilename ==
    /\ nm_pc = "start"
    /\ nm_out' = get_safe_chapter_filename(nm_args.document_title, nm_args.chapter_number,
                                            nm_args.chapter_title, nm_args.extension)
    /\ nm_pc' = "done"
    /\ UNCHANGED <<nm_args, nm_others>>

NmNext == GetSafeChapterFilename

(***************************************************************************)
(* data_models.py: Chapter                                                 *)
(***************************************************************************)
\* Optional[int] = None: no page; a page number is never negative
None == -1

\* confidence scores, in tenths
CONF_OUTLINE == 9
CONF_TEXT == 7
CONF_TOC == 8
CONF_TOC_FAILED == 3
CONF_CONTENT == 6

PdfChapter(chapter_number, page, confidence) ==
    [chapter_number |-> chapter_number, start_page |-> page, end_page |-> page,
     xpath |-> <<>>, confidence_score |-> confidence]

EpubChapter(chapter_number, xpath, confidence) ==
    [chapter_number |-> chapter_number, start_page |-> None, end_page |-> None,
     xpath |-> xpath, confidence_score |-> confidence]

is_valid_pdf_chapter(chapter) ==
    /\ chapter.start_page # None
    /\ chapter.end_page # None
    /\ chapter.start_page <= chapter.end_page
    /\ chapter.start_page > 0

(***************************************************************************)
(* pdf_processor.py: chapter detection                                     *)
(***************************************************************************)
\* A page reference of an outline item: an indirect reference to the page
\* object with number id (page i of the document is object i), a plain
\* integer index, or something that resolves to no page.
PageRefs ==
    [kind : {"idnum"}, v : 1..(MaxPages + 1)]
    \cup [kind : {"int"}, v : -1..MaxPages]
    \cup [kind : {"other"}, v : {0}]

_safe_get_page_number(page_ref, total_pages) ==
    CASE page_ref.kind = "idnum" ->
           IF page_ref.v \in 1..total_pages THEN page_ref.v ELSE 0
      [] page_ref.kind = "int" -> page_ref.v + 1
      [] OTHER -> 0

RECURSIVE OutlineChaptersAfterFirstPage(_, _, _)
OutlineChaptersAfterFirstPage(leaves, total_pages, chapter_num) ==
    IF leaves = <<>> THEN <<>>
    ELSE LET page_num == _safe_get_page_number(Head(leaves), total_pages)
         IN  IF page_num > 1
             THEN <<PdfChapter(chapter_num, page_num, CONF_OUTLINE)>>
                  \o OutlineChaptersAfterFirstPage(Tail(leaves), total_pages, chapter_num + 1)
             ELSE OutlineChaptersAfterFirstPage(Tail(leaves), total_pages, chapter_num)

\* process_outline_item over the leaves in document order: a leaf becomes a
\* chapter when its page number is positive; chapter_num counts the chapters
RECURSIVE OutlineChapters(_, _, _)
OutlineChapters(leaves, total_pages, chapter_num) ==
    IF leaves = <<>> THEN <<>>
    ELSE LET page_num == _safe_get_page_number(Head(leaves), total_pages)
         IN  IF page_num > 0
             THEN <<PdfChapter(chapter_num, page_num, CONF_OUTLINE)>>
                  \o OutlineChapters(Tail(leaves), total_pages, chapter_num + 1)
             ELSE OutlineChapters(Tail(leaves), total_pages, chapter_num)

SetEndNoClamp(chapters, total_pages) ==
    [i \in 1..Len(chapters) |->
       [chapters[i] EXCEPT !.end_page =
          IF i < Len(chapters) THEN chapters[i + 1].start_page - 1 ELSE total_pages]]

SetEndNextStart(chapters, total_pages) ==
    [i \in 1..Len(chapters) |->
       LET end == IF i < Len(chapters) THEN chapters[i + 1].start_page ELSE total_pages
       IN  [chapters[i] EXCEPT !.end_page =
              IF end < chapters[i].start_page THEN chapters[i].start_page ELSE end]]

_set_chapter_end_pages(chapters, total_pages) ==
    [i \in 1..Len(chapters) |->
       LET end == IF i < Len(chapters) THEN chapters[i + 1].start_page - 1
                  ELSE total_pages
       IN  [chapters[i] EXCEPT !.end_page =
              IF end < chapters[i].start_page THEN chapters[i].start_page ELSE end]]

NormalizeSkip(chapters) == chapters

_normalize_chapter_numbers(chapters) ==
    [idx \in 1..Len(chapters) |-> [chapters[idx] EXCEPT !.chapter_number = idx]]

\* the text of one page: unreadable, empty, or the heading patterns it
\* matches (none, the last one only, or all of them)
PageTexts ==
    [kind : {"text"}, hits : {{}, {MaxPatterns}, 1..MaxPatterns}]
    \cup [kind : {"error", "empty"}, hits : {{}}]

PageMatches(text) == text.kind = "text" /\ text.hits # {}

\* after a pattern has been tried on a page: the remaining patterns are
\* tried only while the last chapter of the list does not start on the page
FoundOnPageNever(chapters, page_num) == FALSE

FoundOnPage(chapters, page_num) ==
    chapters # <<>> /\ chapters[Len(chapters)].start_page = page_num

\* the pattern loop on one page, from pattern on: the first match of a
\* pattern appends a chapter, whose number is one more than the chapters
\* found so far
RECURSIVE ScanPatterns(_, _, _, _)
ScanPatterns(text, pattern, page_num, chapters) ==
    IF pattern > MaxPatterns THEN chapters
    ELSE LET found == IF pattern \in text.hits
                      THEN Append(chapters,
                                  PdfChapter(Len(chapters) + 1, page_num, CONF_TEXT))
                      ELSE chapters
         IN  IF FoundOnPage(found, page_num) THEN found
             ELSE ScanPatterns(text, pattern + 1, page_num, found)

\* the page loop: a page without text, or whose text cannot be extracted, is
\* passed over
RECURSIVE ScanPages(_, _, _)
ScanPages(texts, page_num, chapters) ==
    IF page_num > Len(texts) THEN chapters
    ELSE ScanPages(texts, page_num + 1,
                   IF texts[page_num].kind = "text"
                   THEN ScanPatterns(texts[page_num], 1, page_num, chapters)
                   ELSE chapters)

\* _extract_chapters_from_text over the pages from page_num on
TextChapters(texts, page_num, chapter_num) ==
    ScanPages(texts, page_num, <<>>)

(***************************************************************************)
(* epub_processor.py: chapter detection                                    *)
(***************************************************************************)
\* the file name of the i-th content document
ItemName(i) == <<"c", Digits[i + 1], ".", "x">>

\* a link of the table of contents: an href, and whether building the
\* chapter from it raises
TocLinks ==
    [href : {ItemName(i) : i \in 1..MaxItems} \cup {<<"n", "o">>, <<>>},
     raises : BOOLEAN]

_create_chapter_from_link(link, chapter_num) ==
    IF link.raises THEN EpubChapter(chapter_num, <<>>, CONF_TOC_FAILED)
    ELSE EpubChapter(chapter_num, link.href, CONF_TOC)

TocChapters(links) ==
    [i \in 1..Len(links) |-> _create_chapter_from_link(links[i], i)]

\* An item of book.toc: a Link, or a tuple (Section, children). Whether a
\* Section object has an href attribute depends on the version of the EPUB
\* library (has_href); a Link always has one.
TocLinkNodes ==
    {[kind |-> "link", href |-> l.href, raises |-> l.raises, has_href |-> TRUE,
      children |-> <<>>] : l \in TocLinks}

PlainLink(href) ==
    [kind |-> "link", href |-> href, raises |-> FALSE, has_href |-> TRUE, children |-> <<>>]

SectionNode(has_href, children) ==
    [kind |-> "section", href |-> IF has_href THEN ItemName(1) ELSE <<>>, raises |-> FALSE,
     has_href |-> has_href, children |-> children]

InnerSections ==
    {SectionNode(h, <<PlainLink(ItemName(2))>>) : h \in BOOLEAN}

TocSections ==
    {SectionNode(h, c) :
        h \in BOOLEAN,
        c \in {<<PlainLink(ItemName(1))>>, <<PlainLink(ItemName(1)), PlainLink(ItemName(2))>>}
               \cup {<<s>> : s \in InnerSections}}

TocNodes == TocLinkNodes \cup TocSections

\* process_toc_item over a list of items: the objects handed to
\* _create_chapter_from_link, in the order of the calls. A tuple whose first
\* element has an href is taken as (Link, title), and its second element is
\* not descended into; otherwise the children are processed in turn.
RECURSIVE process_toc_items(_)
process_toc_items(items) ==
    IF items = <<>> THEN <<>>
    ELSE LET item == Head(items)
             here == IF item.kind = "link" THEN <<[href |-> item.href, raises |-> item.raises]>>
                     ELSE IF item.has_href THEN <<[href |-> item.href, raises |-> FALSE]>>
                     ELSE process_toc_items(item.children)
         IN  here \o process_toc_items(Tail(items))

\* a content document: no content, a heading, no heading but a file name,
\* neither, or one whose parsing raises
ItemKinds == {"nocontent", "heading", "stem", "untitled", "error"}

RECURSIVE ContentChapters(_, _)
ContentChapters(items, idx) ==
    IF idx > Len(items) THEN <<>>
    ELSE IF items[idx] \in {"heading", "stem"}
         THEN <<EpubChapter(idx, ItemName(idx), CONF_CONTENT)>>
              \o ContentChapters(items, idx + 1)
         ELSE ContentChapters(items, idx + 1)

(***************************************************************************)
(* analyze_chapters (both processors)                                      *)
(***************************************************************************)
SeqsUpTo(S, n) == UNION {[1..k -> S] : k \in 0..n}

StructuralFoundAlways(chapters) == TRUE

\* 'if outline_chapters:' / 'if toc_chapters:'
StructuralFound(chapters) == chapters # <<>>

AnIdle ==
    /\ an_pc = "idle"
    /\ an_doc = [fmt |-> "none", readable |-> FALSE, total_pages |-> 0]
    /\ an_tier = "none"
    /\ an_bounded = FALSE
    /\ an_chapters = <<>>
    /\ an_outline = <<>>
    /\ an_toc = <<>>
    /\ an_texts = <<>>

AnInit ==
    /\ an_pc = "init"
    /\ an_doc \in [fmt : {"pdf", "epub"}, readable : BOOLEAN, total_pages : 0..MaxPages]
    /\ an_doc.fmt = "epub" => an_doc.total_pages = 0
    /\ an_tier = "none"
    /\ an_bounded = FALSE
    /\ an_chapters = <<>>
    /\ an_outline = <<>>
    /\ an_toc = <<>>
    /\ an_texts = <<>>

\* pdf_processor.py 125, 146-197: an unreadable file, an empty outline or a
\* failure of len(pdf_reader.pages) leaves the list as it is
PdfOutlineTier ==
    /\ an_pc = "init"
    /\ an_doc.fmt = "pdf"
    /\ \E leaves \in SeqsUpTo(PageRefs, MaxLeaves), pages_fail \in BOOLEAN :
         LET found == OutlineChapters(leaves, an_doc.total_pages, 1)
             bounded == an_doc.readable /\ leaves # <<>> /\ ~pages_fail
         IN  /\ an_chapters' =
                  IF ~an_doc.readable THEN <<>>
                  ELSE IF bounded THEN _set_chapter_end_pages(found, an_doc.total_pages)
                  ELSE found
             /\ an_bounded' = bounded
             /\ an_outline' = IF an_doc.readable THEN leaves ELSE <<>>
    /\ an_tier' = "outline"
    /\ an_pc' = "structural"
    /\ UNCHANGED <<an_doc, an_toc, an_texts, an_others>>

\* epub_processor.py 130: read_epub raises on an unreadable file
EpubReadFails ==
    /\ an_pc = "init"
    /\ an_doc.fmt = "epub"
    /\ ~an_doc.readable
    /\ an_pc' = "error"
    /\ UNCHANGED <<an_doc, an_tier, an_bounded, an_chapters, an_outline, an_toc, an_texts, an_others>>

\* epub_processor.py 133, 154-203
EpubTocTier ==
    /\ an_pc = "init"
    /\ an_doc.fmt = "epub"
    /\ an_doc.readable
    /\ \E toc \in SeqsUpTo(TocNodes, MaxLeaves) :
         /\ an_toc' = toc
         /\ an_chapters' = TocChapters(process_toc_items(toc))
    /\ an_tier' = "toc"
    /\ an_pc' = "structural"
    /\ UNCHANGED <<an_doc, an_bounded, an_outline, an_texts, an_others>>

\* lines 127-129 (pdf), 135-137 (epub): the structural tier found chapters
StructuralResolved ==
    /\ an_pc = "structural"
    /\ StructuralFound(an_chapters)
    /\ an_pc' = "resolved"
    /\ UNCHANGED <<an_doc, an_tier, an_bounded, an_chapters, an_outline, an_toc, an_texts, an_others>>

\* pdf_processor.py 130-134, 215-263
PdfTextTier ==
    /\ an_pc = "structural"
    /\ an_doc.fmt = "pdf"
    /\ ~StructuralFound(an_chapters)
    /\ \E texts \in [1..an_doc.total_pages -> PageTexts] :
         /\ an_chapters' =
              IF an_doc.readable
              THEN _set_chapter_end_pages(TextChapters(texts, 1, 1), an_doc.total_pages)
              ELSE <<>>
         /\ an_texts' = IF an_doc.readable THEN texts ELSE <<>>
    /\ an_bounded' = an_doc.readable
    /\ an_tier' = "text"
    /\ an_pc' = "heuristic"
    /\ UNCHANGED <<an_doc, an_outline, an_toc, an_others>>

\* epub_processor.py 138-142, 233-271
EpubContentTier ==
    /\ an_pc = "structural"
    /\ an_doc.fmt = "epub"
    /\ ~StructuralFound(an_chapters)
    /\ \E items \in SeqsUpTo(ItemKinds, MaxItems) :
         an_chapters' = ContentChapters(items, 1)
    /\ an_tier' = "content"
    /\ an_pc' = "heuristic"
    /\ UNCHANGED <<an_doc, an_bounded, an_outline, an_toc, an_texts, an_others>>

\* lines 137-139 (pdf), 145-147 (epub)
Normalize ==
    /\ an_pc \in {"resolved", "heuristic"}
    /\ an_chapters' = _normalize_chapter_numbers(an_chapters)
    /\ an_pc' = "normalized"
    /\ UNCHANGED <<an_doc, an_tier, an_bounded, an_outline, an_toc, an_texts, an_others>>

AnNext ==
    \/ PdfOutlineTier
    \/ EpubReadFails
    \/ EpubTocTier
    \/ StructuralResolved
    \/ PdfTextTier
    \/ EpubContentTier
    \/ Normalize

(***************************************************************************)
(* The file system. A path is a directory and a file name. The files of a  *)
(* directory are listed one by one in fs.files (path -> content), and      *)
(* fs.bulk adds the files "stem (n)suffix" for n = 1..upto of one          *)
(* directory.                                                              *)
(***************************************************************************)
PathOf(parent, name) == [parent |-> parent, name |-> name]

NoPath == PathOf("", <<>>)

NoBulk == [parent |-> "", stem |-> <<>>, suffix |-> <<>>, upto |-> 0]

OldContent == [kind |-> "old", body |-> <<>>]

EmptyFs == [dirs |-> {}, readonly |-> {}, files |-> <<>>, bulk |-> NoBulk]

DigitValue(c) == (CHOOSE d \in 1..10 : Digits[d] = c) - 1

RECURSIVE DecimalValue(_)
DecimalValue(s) ==
    IF s = <<>> THEN 0
    ELSE 10 * DecimalValue(SubSeq(s, 1, Len(s) - 1)) + DigitValue(s[Len(s)])

\* f"{original_stem} ({counter}){suffix}"
NumberedName(stem, counter, suffix) ==
    stem \o <<" ", "(">> \o Decimal(counter) \o <<")">> \o suffix

\* f"{original_stem}_{timestamp}{suffix}"
TimeName(stem, timestamp, suffix) == stem \o <<"_">> \o Decimal(timestamp) \o suffix

\* path is one of the files NumberedName(stem, n, suffix), n in 1..upto, of b
InBulk(b, path) ==
    /\ b.upto > 0
    /\ path.parent = b.parent
    /\ LET pre == b.stem \o <<" ", "(">>
           post == <<")">> \o b.suffix
           midlen == Len(path.name) - Len(pre) - Len(post)
       IN  /\ midlen >= 1
           /\ midlen <= Len(Decimal(b.upto))
           /\ SubSeq(path.name, 1, Len(pre)) = pre
           /\ EndsWith(path.name, post)
           /\ LET mid == SubSeq(path.name, Len(pre) + 1, Len(pre) + midlen)
              IN  /\ \A i \in 1..midlen : \E d \in 1..10 : Digits[d] = mid[i]
                  /\ DecimalValue(mid) \in 1..b.upto
                  /\ Decimal(DecimalValue(mid)) = mid

\* Path.exists()
Exists(f, path) == path \in DOMAIN f.files \/ InBulk(f.bulk, path)

WriteFile(f, path, content) == [f EXCEPT !.files = (path :> content) @@ f.files]

(***************************************************************************)
(* file_utils.py: ensure_unique_filename, one loop iteration per step      *)
(***************************************************************************)
MAX_COUNTER == 9999

\* int(time.time())
Timestamps == {1762282800, 1762282801}

\* line 152: if counter > 9999
CounterExhaustedEarly(counter) == counter >= MAX_COUNTER

CounterExhaustedLate(counter) == counter > MAX_COUNTER + 1

CounterExhausted(counter) == counter > MAX_COUNTER

EuIdle ==
    /\ eu_pc = "idle"
    /\ eu_path = NoPath
    /\ eu_counter = 0
    /\ eu_result = NoPath

\* lines 134-140
EuCheckOriginal ==
    /\ eu_pc = "call"
    /\ IF ~Exists(fs, eu_path)
       THEN /\ eu_result' = eu_path
            /\ eu_pc' = "done"
            /\ UNCHANGED eu_counter
       ELSE /\ eu_counter' = 1
            /\ eu_pc' = "loop"
            /\ UNCHANGED eu_result
    /\ UNCHANGED <<eu_path, fs, eu_others>>

\* lines 142-156: one iteration of the while loop
EuProbe ==
    /\ eu_pc = "loop"
    /\ LET original_stem == Stem(eu_path.name)
           suffix == Suffix(eu_path.name)
           parent == eu_path.parent
           new_path == PathOf(parent, NumberedName(original_stem, eu_counter, suffix))
       IN  IF ~Exists(fs, new_path)
           THEN /\ eu_result' = new_path
                /\ eu_pc' = "done"
                /\ UNCHANGED eu_counter
           ELSE /\ eu_counter' = eu_counter + 1
                /\ IF CounterExhausted(eu_counter + 1)
                   THEN /\ \E timestamp \in Timestamps :
                             eu_result' =
                                 PathOf(parent, TimeName(original_stem, timestamp, suffix))
                        /\ eu_pc' = "done"
                   ELSE /\ eu_pc' = "loop"
                        /\ UNCHANGED eu_result
    /\ UNCHANGED <<eu_path, fs, eu_others>>

\* the callers' arguments: a file name with or without a suffix, in a
\* directory that holds the name, some numbered names and a time-based name,
\* or the name and the numbered names 1..upto
NameAX == <<"a", ".", "x">>
NameA == <<"a">>

ListedFiles(path) ==
    LET stem == Stem(path.name)
        suffix == Suffix(path.name)
        listed == {PathOf(path.parent, NumberedName(stem, n, suffix)) : n \in 1..MaxTaken}
                  \cup {path, PathOf("alt", path.name)}
    IN  {[p \in S |-> OldContent] : S \in SUBSET listed}

FullFiles(path) ==
    LET time_paths == {PathOf(path.parent, TimeName(Stem(path.name), ts, Suffix(path.name))) :
                          ts \in Timestamps}
    IN  {[p \in {path} \cup S |-> OldContent] : S \in {{}, time_paths}}

BulkChoices(path) ==
    {[parent |-> path.parent, stem |-> Stem(path.name), suffix |-> Suffix(path.name),
      upto |-> n] : n \in {MAX_COUNTER - 1, MAX_COUNTER}}

EuFileSystems(path) ==
    {[dirs |-> {"out", "alt"}, readonly |-> {}, files |-> files, bulk |-> NoBulk] :
        files \in ListedFiles(path)}
    \cup
    {[dirs |-> {"out", "alt"}, readonly |-> {}, files |-> files, bulk |-> bulk] :
        files \in FullFiles(path), bulk \in BulkChoices(path)}

EuInit ==
    /\ eu_pc = "call"
    /\ eu_path \in {PathOf("out", NameAX), PathOf("out", NameA)}
    /\ eu_counter = 0
    /\ eu_result = NoPath
    /\ fs \in EuFileSystems(eu_path)

(***************************************************************************)
(* data_models.py: SplitSettings                                           *)
(***************************************************************************)
PENDING == "pending"
SUCCESS == "success"
ERROR == "error"

DEFAULT_NAMING_PATTERN == "{title}_{chapter_num}_{chapter_title}"

get_output_extension(settings, input_file_type) ==
    IF settings.output_format = "same_as_input"
    THEN (IF input_file_type = "pdf" THEN ExtPdf ELSE ExtEpub)
    ELSE IF settings.output_format = "pdf" THEN ExtPdf
    ELSE IF settings.output_format = "epub" THEN ExtEpub
    ELSE ExtPdf

RequiresConversionNever(settings, input_file_type) == FALSE

requires_format_conversion(settings, input_file_type) ==
    IF settings.output_format = "same_as_input" THEN FALSE
    ELSE IF settings.output_format = "pdf" THEN input_file_type # "pdf"
    ELSE IF settings.output_format = "epub" THEN input_file_type # "epub"
    ELSE FALSE

\* SplitSettings.validate(): the list of errors
validate(settings, f) ==
    (IF settings.output_directory = "" THEN <<"output_directory_empty">>
     ELSE IF settings.output_directory \notin f.dirs THEN <<"output_directory_missing">>
     ELSE <<>>)
    \o (IF settings.naming_pattern = "" THEN <<"naming_pattern_empty">> ELSE <<>>)
    \o (IF settings.detection_method = "xpath" /\ settings.custom_xpath = ""
        THEN <<"custom_xpath_empty">> ELSE <<>>)

(***************************************************************************)
(* file_utils.py: validate_output_directory. mkdir_ok and disk_low are the *)
(* answers of the operating system.                                        *)
(***************************************************************************)
validate_output_directory(f, directory, mkdir_ok, disk_low) ==
    IF directory = "" THEN [valid |-> FALSE, fs |-> f]
    ELSE IF directory \notin f.dirs /\ ~mkdir_ok THEN [valid |-> FALSE, fs |-> f]
    ELSE LET g == [f EXCEPT !.dirs = @ \cup {directory}]
         IN  IF directory \in g.readonly THEN [valid |-> FALSE, fs |-> g]
             ELSE IF disk_low THEN [valid |-> FALSE, fs |-> g]
             ELSE [valid |-> TRUE, fs |-> g]

(***************************************************************************)
(* pdf_processor.py, epub_processor.py: split_pdf_by_chapters and          *)
(* split_epub_by_chapters                                                  *)
(***************************************************************************)
SplitChapter(chapter_number, title, start_page, end_page, xpath) ==
    [chapter_number |-> chapter_number, title |-> title,
     start_page |-> start_page, end_page |-> end_page, xpath |-> xpath,
     split_status |-> PENDING, output_file_path |-> NoPath]

\* a in b, for str
IsSubstring(a, b) == \E i \in 0..(Len(b) - Len(a)) : SubSeq(b, i + 1, i + Len(a)) = a

\* names that contain xpath or are contained in it (line 455)
ItemMatches(all_items, xpath) ==
    {i \in 1..Len(all_items) :
        IsSubstring(xpath, all_items[i]) \/ IsSubstring(all_items[i], xpath)}

GetChapterItemsNoFallback(all_items, xpath) ==
    IF ItemMatches(all_items, xpath) # {}
    THEN <<all_items[MinOf(ItemMatches(all_items, xpath))]>>
    ELSE <<>>

\* the names of the items _get_chapter_items returns
_get_chapter_items(all_items, xpath) ==
    LET matches == {i \in 1..Len(all_items) :
                       IsSubstring(xpath, all_items[i]) \/ IsSubstring(all_items[i], xpath)}
    IN  IF matches # {} THEN <<all_items[MinOf(matches)]>>
        ELSE IF all_items # <<>> THEN <<all_items[1]>>
        ELSE <<>>

ChapterPagesFromStart(chapter, total_pages) ==
    LET lo == MaxOf({chapter.start_page + 1, 1})
        hi == MinOf({chapter.end_page, total_pages})
    IN  IF hi < lo THEN <<>> ELSE [i \in 1..(hi - lo + 1) |-> lo + i - 1]

\* the pages of range(start_page - 1, end_page) that pass the test of line 330
ChapterPages(chapter, total_pages) ==
    LET lo == MaxOf({chapter.start_page, 1})
        hi == MinOf({chapter.end_page, total_pages})
    IN  IF hi < lo THEN <<>> ELSE [i \in 1..(hi - lo + 1) |-> lo + i - 1]

\* lines 329-333: a page whose add_page raises is left out with a warning
CopiedPages(chapter, document) ==
    SelectSeq(ChapterPages(chapter, document.total_pages),
              LAMBDA p : p \notin document.bad_pages)

PartialContent == [kind |-> "partial", body |-> <<>>]

\* except branches: chapter.split_status = ProcessingStatus.ERROR
OnChapterErrorIgnored(chapters, k) == chapters

OnChapterError(chapters, k) == [chapters EXCEPT ![k].split_status = ERROR]

OnChapterSuccessStatusOnly(chapters, k, output_path) ==
    [chapters EXCEPT ![k].split_status = SUCCESS]

OnChapterSuccess(chapters, k, output_path) ==
    [chapters EXCEPT ![k].split_status = SUCCESS, ![k].output_file_path = output_path]

SpIdle ==
    /\ sp_pc = "idle"
    /\ sp_doc = [file_type |-> "none"]
    /\ sp_settings = [output_directory |-> ""]
    /\ sp_chapters = <<>>
    /\ sp_k = 0
    /\ sp_ext = <<>>
    /\ sp_events = <<>>
    /\ sp_output_files = <<>>
    /\ sp_cancel = FALSE

\* validate_output_directory, the extension, opening the source
SplitSetup(file_type, unsupported_format) ==
    /\ sp_pc = "start"
    /\ sp_doc.file_type = file_type
    /\ \E mkdir_ok \in BOOLEAN, disk_low \in BOOLEAN, source_ok \in BOOLEAN :
         LET checked == validate_output_directory(fs, sp_settings.output_directory,
                                                  mkdir_ok, disk_low)
             output_extension == get_output_extension(sp_settings, file_type)
             requires_conversion == requires_format_conversion(sp_settings, file_type)
         IN  /\ fs' = checked.fs
             /\ IF checked.valid /\ source_ok
                THEN /\ sp_pc' = "chapter"
                     /\ sp_k' = 1
                     /\ sp_ext' = IF requires_conversion
                                     /\ sp_settings.output_format = unsupported_format
                                  THEN (IF file_type = "pdf" THEN ExtPdf ELSE ExtEpub)
                                  ELSE output_extension
                ELSE /\ sp_pc' = "raised"
                     /\ UNCHANGED <<sp_k, sp_ext>>
    /\ UNCHANGED <<sp_doc, sp_settings, sp_chapters, sp_events, sp_output_files,
                   eu_vars, sp_others>>

\* where the loop body ends: the except branches end in the next iteration
\* (continue), never in the outer except
AfterChapterEscalates(event) ==
    IF event \in {"raise", "open_fails", "write_fails", "no_items"} THEN "raised" ELSE "chapter"

AfterChapter(event) == "chapter"

\* the loop moves to the next chapter
NextChapter(chapters, event) ==
    /\ sp_chapters' = chapters
    /\ sp_events' = Append(sp_events, event)
    /\ sp_k' = sp_k + 1
    /\ sp_pc' = AfterChapter(event)

InLoop(file_type) ==
    /\ sp_pc = "chapter"
    /\ sp_doc.file_type = file_type
    /\ sp_k <= Len(sp_chapters)

\* continue: the chapter is left as it is
ChapterSkip ==
    /\ NextChapter(sp_chapters, "skipped")
    /\ UNCHANGED <<sp_doc, sp_settings, sp_ext, sp_output_files, fs, eu_vars, sp_others>>

\* get_safe_chapter_filename, and the call of ensure_unique_filename
ChapterName ==
    /\ LET chapter == sp_chapters[sp_k]
           safe_filename == get_safe_chapter_filename(sp_doc.title, chapter.chapter_number,
                                                      chapter.title, sp_ext)
       IN  eu_path' = PathOf(sp_settings.output_directory, safe_filename)
    /\ eu_pc' = "call"
    /\ eu_counter' = 0
    /\ eu_result' = NoPath
    /\ sp_pc' = "unique"
    /\ UNCHANGED <<sp_doc, sp_settings, sp_chapters, sp_k, sp_ext, sp_events,
                   sp_output_files, fs, sp_others>>

\* an exception before the file is opened: the outer except of the loop body
ChapterRaise ==
    /\ NextChapter(OnChapterError(sp_chapters, sp_k), "raise")
    /\ UNCHANGED <<sp_doc, sp_settings, sp_ext, sp_output_files, fs, eu_vars, sp_others>>

Resolved(file_type) ==
    /\ sp_pc = "unique"
    /\ sp_doc.file_type = file_type
    /\ eu_pc = "done"

\* the file is written, or not
ChapterSave(outcome, content) ==
    /\ eu_pc' = "idle"
    /\ eu_path' = NoPath
    /\ eu_counter' = 0
    /\ eu_result' = NoPath
    /\ IF outcome = "ok"
       THEN /\ fs' = WriteFile(fs, eu_result, content)
            /\ NextChapter(OnChapterSuccess(sp_chapters, sp_k, eu_result), outcome)
            /\ sp_output_files' = Append(sp_output_files, eu_result)
       ELSE /\ fs' = IF outcome = "write_fails"
                     THEN WriteFile(fs, eu_result, PartialContent) ELSE fs
            /\ NextChapter(OnChapterError(sp_chapters, sp_k), outcome)
            /\ UNCHANGED sp_output_files
    /\ UNCHANGED <<sp_doc, sp_settings, sp_ext, sp_others>>

SplitReturn ==
    /\ sp_pc = "chapter"
    /\ sp_k > Len(sp_chapters)
    /\ sp_pc' = "returned"
    /\ UNCHANGED <<sp_doc, sp_settings, sp_chapters, sp_k, sp_ext, sp_events,
                   sp_output_files, fs, eu_vars, sp_others>>

\* the user cancels the document while the split runs; the split functions
\* take no cancel signal and read none
RequestCancel ==
    /\ sp_pc \in {"start", "chapter", "unique"}
    /\ ~sp_cancel
    /\ sp_cancel' = TRUE
    /\ UNCHANGED <<sp_pc, sp_doc, sp_settings, sp_chapters, sp_k, sp_ext, sp_events,
                   sp_output_files, fs, eu_vars, san_vars, nm_vars, an_vars, cw_vars,
                   gi_vars, md_vars, tr_vars, ct_vars>>

\* split_pdf_by_chapters
PdfSplitSetup == SplitSetup("pdf", "epub")

PdfChapterSkip ==
    /\ InLoop("pdf")
    /\ ~is_valid_pdf_chapter(sp_chapters[sp_k])
    /\ ChapterSkip

PdfChapterName ==
    /\ InLoop("pdf")
    /\ is_valid_pdf_chapter(sp_chapters[sp_k])
    /\ ChapterName

PdfChapterRaise ==
    /\ InLoop("pdf")
    /\ is_valid_pdf_chapter(sp_chapters[sp_k])
    /\ ChapterRaise

PdfSaveOutcomes == {"ok", "raise", "open_fails", "write_fails"}

PdfChapterSave ==
    /\ Resolved("pdf")
    /\ \E outcome \in PdfSaveOutcomes :
         ChapterSave(outcome, [kind |-> "pdf",
                               body |-> CopiedPages(sp_chapters[sp_k], sp_doc)])

\* split_epub_by_chapters
EpubSplitSetup == SplitSetup("epub", "pdf")

EpubChapterSkip ==
    /\ InLoop("epub")
    /\ sp_chapters[sp_k].xpath = <<>>
    /\ ChapterSkip

EpubChapterName ==
    /\ InLoop("epub")
    /\ sp_chapters[sp_k].xpath # <<>>
    /\ ChapterName

EpubChapterRaise ==
    /\ InLoop("epub")
    /\ sp_chapters[sp_k].xpath # <<>>
    /\ ChapterRaise

EpubSaveOutcomes == {"ok", "open_fails", "write_fails"}

\* _extract_and_save_chapter, and the branches on its result
EpubChapterSave ==
    /\ Resolved("epub")
    /\ LET chapter_items == _get_chapter_items(sp_doc.items, sp_chapters[sp_k].xpath)
       IN  IF chapter_items = <<>>
           THEN ChapterSave("no_items", PartialContent)
           ELSE \E outcome \in EpubSaveOutcomes :
                    ChapterSave(outcome, [kind |-> "epub", body |-> chapter_items])

\* the calls: a document, its chapters numbered in list order, the settings,
\* and an output directory that holds some of the names
DocTitle == <<"D", "o", "c">>

ChapterTitles == {<<>>, <<"I">>}

\* bad_pages: the pages of the source for which add_page raises
PdfDocs ==
    {[file_type |-> "pdf", title |-> DocTitle, total_pages |-> MaxPages, bad_pages |-> bad] :
        bad \in {{}, {2}}}

EpubDocs ==
    {[file_type |-> "epub", title |-> DocTitle, items |-> items] :
        items \in {<<>>, <<ItemName(1), ItemName(2)>>}}

PdfPageRanges == {<<None, None>>, <<1, 2>>, <<2, 1>>, <<MaxPages + 1, MaxPages + 2>>}

EpubXpaths == {<<>>, ItemName(2), <<"z">>}

PdfChapterLists ==
    UNION {{[k \in 1..n |-> SplitChapter(k, title[k], pages[k][1], pages[k][2], <<>>)] :
               title \in [1..n -> ChapterTitles], pages \in [1..n -> PdfPageRanges]} :
           n \in 0..MaxChapters}

EpubChapterLists ==
    UNION {{[k \in 1..n |-> SplitChapter(k, title[k], None, None, xpath[k])] :
               title \in [1..n -> ChapterTitles], xpath \in [1..n -> EpubXpaths]} :
           n \in 0..MaxChapters}

ValidSettings(output_format) ==
    [output_directory |-> "out", output_format |-> output_format,
     naming_pattern |-> DEFAULT_NAMING_PATTERN, detection_method |-> "auto",
     custom_xpath |-> ""]

SettingsChoices ==
    {ValidSettings(f) : f \in {"same_as_input", "pdf", "epub"}}
    \cup {[ValidSettings("same_as_input") EXCEPT !.output_directory = d] : d \in {"", "new", "ro"}}
    \cup {[ValidSettings("same_as_input") EXCEPT !.naming_pattern = ""]}
    \cup {[ValidSettings("same_as_input") EXCEPT !.detection_method = "xpath", !.custom_xpath = x] :
             x \in {"", "//h1"}}

FirstTitledName(ext) == get_safe_chapter_filename(DocTitle, 1, <<"I">>, ext)

SplitFileSystems(ext) ==
    LET first == PathOf("out", FirstTitledName(ext))
        second == PathOf("out", NumberedName(Stem(first.name), 1, Suffix(first.name)))
    IN  {[dirs |-> {"out", "ro"}, readonly |-> {"ro"}, files |-> [p \in S |-> OldContent],
          bulk |-> NoBulk] : S \in {{}, {first}, {first, second}}}

SpInit ==
    /\ sp_pc = "start"
    /\ \/ sp_doc \in PdfDocs /\ sp_chapters \in PdfChapterLists
       \/ sp_doc \in EpubDocs /\ sp_chapters \in EpubChapterLists
    /\ sp_settings \in SettingsChoices
    /\ fs \in SplitFileSystems(IF sp_doc.file_type = "pdf" THEN ExtPdf ELSE ExtEpub)
    /\ sp_k = 0
    /\ sp_ext = <<>>
    /\ sp_events = <<>>
    /\ sp_output_files = <<>>
    /\ sp_cancel = FALSE

\* A split of a PDF into a directory that already holds the first chapter's
\* name and all of its numbered variants, with or without the names that
\* carry the time of the call; the two chapters of the list have the same
\* number and title, or the first is invalid.
FullSplitFileSystems ==
    LET first == PathOf("out", FirstTitledName(ExtPdf))
    IN  {[dirs |-> {"out", "ro"}, readonly |-> {"ro"}, files |-> files,
          bulk |-> [parent |-> "out", stem |-> Stem(first.name),
                    suffix |-> Suffix(first.name), upto |-> MAX_COUNTER]] :
            files \in FullFiles(first)}

FullChapterLists ==
    {<<SplitChapter(1, <<"I">>, 1, 2, <<>>), SplitChapter(1, <<"I">>, 1, 2, <<>>)>>,
     <<SplitChapter(1, <<"I">>, None, None, <<>>), SplitChapter(1, <<"I">>, 2, 2, <<>>)>>}

SpFullInit ==
    /\ sp_pc = "start"
    /\ sp_doc = [file_type |-> "pdf", title |-> DocTitle, total_pages |-> MaxPages,
                 bad_pages |-> {}]
    /\ sp_chapters \in FullChapterLists
    /\ sp_settings = ValidSettings("same_as_input")
    /\ fs \in FullSplitFileSystems
    /\ sp_k = 0
    /\ sp_ext = <<>>
    /\ sp_events = <<>>
    /\ sp_output_files = <<>>
    /\ sp_cancel = FALSE

(***************************************************************************)
(* Several threads in the loop body of a split at once, each between its   *)
(* ensure_unique_filename (pdf_processor.py 323, epub_processor.py 355) and *)
(* its write (350-351, 412), on one file system.                            *)
(***************************************************************************)
Workers == 1..MaxWorkers

WorkerContent(w) == [kind |-> "worker", body |-> <<w>>]

CwIdle ==
    /\ cw_pc = <<>>
    /\ cw_path = <<>>
    /\ cw_counter = <<>>
    /\ cw_result = <<>>

CwInit ==
    /\ cw_pc = [w \in Workers |-> "call"]
    /\ cw_path \in [Workers -> {PathOf("out", NameAX), PathOf("out", NameA)}]
    /\ cw_counter = [w \in Workers |-> 0]
    /\ cw_result = [w \in Workers |-> NoPath]
    /\ \E files \in ListedFiles(PathOf("out", NameAX)) :
         fs = [dirs |-> {"out", "alt"}, readonly |-> {}, files |-> files, bulk |-> NoBulk]

\* file_utils.py 134-140, by worker w
WorkerCheckOriginal(w) ==
    /\ cw_pc[w] = "call"
    /\ IF ~Exists(fs, cw_path[w])
       THEN /\ cw_result' = [cw_result EXCEPT ![w] = cw_path[w]]
            /\ cw_pc' = [cw_pc EXCEPT ![w] = "write"]
            /\ UNCHANGED cw_counter
       ELSE /\ cw_counter' = [cw_counter EXCEPT ![w] = 1]
            /\ cw_pc' = [cw_pc EXCEPT ![w] = "loop"]
            /\ UNCHANGED cw_result
    /\ UNCHANGED <<cw_path, fs, cw_others>>

\* file_utils.py 142-156, by worker w: one iteration of the while loop
WorkerProbe(w) ==
    /\ cw_pc[w] = "loop"
    /\ LET original_stem == Stem(cw_path[w].name)
           suffix == Suffix(cw_path[w].name)
           parent == cw_path[w].parent
           new_path == PathOf(parent, NumberedName(original_stem, cw_counter[w], suffix))
       IN  IF ~Exists(fs, new_path)
           THEN /\ cw_result' = [cw_result EXCEPT ![w] = new_path]
                /\ cw_pc' = [cw_pc EXCEPT ![w] = "write"]
                /\ UNCHANGED cw_counter
           ELSE /\ cw_counter' = [cw_counter EXCEPT ![w] = @ + 1]
                /\ IF CounterExhausted(cw_counter[w] + 1)
                   THEN /\ \E timestamp \in Timestamps :
                             cw_result' = [cw_result EXCEPT ![w] =
                                 PathOf(parent, TimeName(original_stem, timestamp, suffix))]
                        /\ cw_pc' = [cw_pc EXCEPT ![w] = "write"]
                   ELSE /\ UNCHANGED <<cw_pc, cw_result>>
    /\ UNCHANGED <<cw_path, fs, cw_others>>

\* pdf_processor.py 350-351, epub_processor.py 412: open for writing, write
WorkerWrite(w) ==
    /\ cw_pc[w] = "write"
    /\ fs' = WriteFile(fs, cw_result[w], WorkerContent(w))
    /\ cw_pc' = [cw_pc EXCEPT ![w] = "done"]
    /\ UNCHANGED <<cw_path, cw_counter, cw_result, cw_others>>

CheckOriginal == \E w \in Workers : WorkerCheckOriginal(w)
Probe == \E w \in Workers : WorkerProbe(w)
Write == \E w \in Workers : WorkerWrite(w)

(***************************************************************************)
(* epub_processor.py: _get_chapter_items, on books whose items have        *)
(* names that contain each other                                           *)
(***************************************************************************)
ItemNames == {<<>>, ItemName(1), <<"o", "/">> \o ItemName(1), ItemName(2)}

ItemArgs ==
    {[all_items |-> items, xpath |-> xpath] :
        items \in SeqsUpTo(ItemNames, MaxItems), xpath \in (ItemNames \ {<<>>}) \cup {<<"z">>}}

GiIdle ==
    /\ gi_pc = "idle"
    /\ gi_args = <<>>
    /\ gi_out = <<>>

GiInit ==
    /\ gi_pc = "call"
    /\ gi_args \in ItemArgs
    /\ gi_out = <<>>

GetChapterItems ==
    /\ gi_pc = "call"
    /\ gi_out' = _get_chapter_items(gi_args.all_items, gi_args.xpath)
    /\ gi_pc' = "done"
    /\ UNCHANGED <<gi_args, gi_others>>

(***************************************************************************)
(* pdf_processor.py / epub_processor.py: loading a document                *)
(***************************************************************************)
Unknown == <<"u","n","k","n","o","w","n">>

\* dict.get(key, default)
Get(map, key, default) == IF key \in DOMAIN map THEN map[key] ELSE default

\* a metadata entry of the file: present or not, and its text
MetaFields ==
    {[present |-> FALSE, value |-> <<>>]}
    \cup [present : {TRUE}, value : {<<>>, <<" ">>, <<"T">>, <<" ", "T", " ">>}]

\* the key is in the metadata and its value is not empty: the stripped text
_safe_get_pdf_meta(field) ==
    IF field.present /\ field.value # <<>> THEN Strip(field.value, PyWhitespace) ELSE <<>>

\* get_metadata returned a non-empty list: the stripped text of its first value
_safe_get_metadata(field) ==
    IF field.present THEN Strip(field.value, PyWhitespace) ELSE <<>>

MetadataFallbackPdf(stem) == [title |-> stem, author |-> Unknown, page_count |-> 0]

MetadataFallbackEpub(stem) == [title |-> stem, author |-> Unknown]

_extract_pdf_metadata(file) ==
    IF ~file.readable \/ file.count_fails THEN MetadataFallbackPdf(Stem(file.name))
    ELSE IF file.has_meta
         THEN [page_count |-> file.count,
               title |-> _safe_get_pdf_meta(file.title),
               author |-> _safe_get_pdf_meta(file.author)]
         ELSE [page_count |-> file.count]

_extract_epub_metadata(file) ==
    IF ~file.readable THEN MetadataFallbackEpub(Stem(file.name))
    ELSE [title |-> _safe_get_metadata(file.title),
          author |-> _safe_get_metadata(file.author),
          estimated_pages |-> IF file.count_fails THEN 0 ELSE file.count]

\* Document(title = metadata.get('title', stem), author = metadata.get('author', ''))
NewDocument(file, metadata) ==
    [title |-> Get(metadata, "title", Stem(file.name)),
     author |-> Get(metadata, "author", <<>>),
     metadata |-> metadata]

NoDocument == [title |-> <<>>, author |-> <<>>, metadata |-> [none |-> 0]]

NoFile ==
    [fmt |-> "none", name |-> <<>>, exists |-> FALSE, readable |-> FALSE, has_meta |-> FALSE,
     count_fails |-> FALSE, count |-> 0, title |-> [present |-> FALSE, value |-> <<>>],
     author |-> [present |-> FALSE, value |-> <<>>]]

MdIdle ==
    /\ md_pc = "idle"
    /\ md_file = NoFile
    /\ md_doc = NoDocument

\* has_meta is the truth of pdf_reader.metadata (an EPUB always has its
\* metadata object); count_fails is a failure of len(pdf_reader.pages) or of
\* get_items_of_type; a file that does not exist cannot be read
LoadFiles ==
    {f \in [fmt : {"pdf", "epub"}, name : {<<"b", "k", ".", "x">>}, exists : BOOLEAN,
             readable : BOOLEAN, has_meta : BOOLEAN, count_fails : BOOLEAN,
             count : 0..MaxPages, title : MetaFields, author : MetaFields] :
        /\ (f.fmt = "epub" => f.has_meta)
        /\ (f.readable => f.exists)
        /\ (~f.readable => (~f.count_fails /\ f.count = 0 /\ f.has_meta
                             /\ ~f.title.present /\ ~f.author.present))
        /\ (~f.has_meta => (~f.title.present /\ ~f.author.present))
        /\ (f.count_fails => f.count = 0)}

MdInit ==
    /\ md_pc = "call"
    /\ md_file \in LoadFiles
    /\ md_doc = NoDocument

\* pdf_processor.py 31-60
ReadPdfDocument ==
    /\ md_pc = "call"
    /\ md_file.fmt = "pdf"
    /\ IF ~md_file.exists
       THEN md_pc' = "raised" /\ UNCHANGED md_doc
       ELSE /\ md_doc' = NewDocument(md_file, _extract_pdf_metadata(md_file))
            /\ md_pc' = "loaded"
    /\ UNCHANGED <<md_file, md_others>>

\* epub_processor.py 36-65
ReadEpubDocument ==
    /\ md_pc = "call"
    /\ md_file.fmt = "epub"
    /\ IF ~md_file.exists
       THEN md_pc' = "raised" /\ UNCHANGED md_doc
       ELSE /\ md_doc' = NewDocument(md_file, _extract_epub_metadata(md_file))
            /\ md_pc' = "loaded"
    /\ UNCHANGED <<md_file, md_others>>

(***************************************************************************)
(* process_outline_item / process_toc_item as a traversal of an object     *)
(* graph: a group is a list, whose elements are nodes of the graph.        *)
(***************************************************************************)
Nodes == 1..MaxNodes

Root == 1

\* the children of a group: none, one node or two nodes, any node of the
\* graph, the group itself and its ancestors included
ChildLists == {<<>>} \cup {<<a>> : a \in Nodes} \cup {<<a, b>> : a \in Nodes, b \in Nodes}

\* the root and node 2 are groups; the other nodes are bookmarks or links
\* (leaf) or objects that are neither (other)
Graphs ==
    {g \in [Nodes -> [kind : {"group", "leaf", "other"}, children : ChildLists]] :
        \A n \in Nodes :
            /\ (n <= 2 => g[n].kind = "group")
            /\ (n > 2 => (g[n].kind # "group" /\ g[n].children = <<>>))}

TrIdle ==
    /\ tr_pc = "idle"
    /\ tr_graph = <<>>
    /\ tr_stack = <<>>
    /\ tr_visits = <<>>
    /\ tr_found = 0

\* the call on the root has been made
TrInit ==
    /\ tr_pc = "run"
    /\ tr_graph \in Graphs
    /\ tr_stack = <<[node |-> Root, next |-> 1]>>
    /\ tr_visits = [n \in Nodes |-> IF n = Root THEN 1 ELSE 0]
    /\ tr_found = 0

Top == tr_stack[Len(tr_stack)]

HasNext == Top.next <= Len(tr_graph[Top.node].children)

NextChild == tr_graph[Top.node].children[Top.next]

Advance == [tr_stack EXCEPT ![Len(tr_stack)].next = Top.next + 1]

\* 'for subitem in item: process_outline_item(subitem, depth + 1)' on a
\* subitem that is a list: a new call, whatever calls are already active
TrDescend ==
    /\ tr_pc = "run"
    /\ tr_stack # <<>>
    /\ HasNext
    /\ tr_graph[NextChild].kind = "group"
    /\ Len(tr_stack) < MaxDepth
    /\ tr_stack' = Append(Advance, [node |-> NextChild, next |-> 1])
    /\ tr_visits' = [tr_visits EXCEPT ![NextChild] = @ + 1]
    /\ UNCHANGED <<tr_pc, tr_graph, tr_found, tr_others>>

\* the call on a subitem that is not a list: a chapter for a bookmark or
\* link, nothing for any other object
TrLeaf ==
    /\ tr_pc = "run"
    /\ tr_stack # <<>>
    /\ HasNext
    /\ tr_graph[NextChild].kind # "group"
    /\ Len(tr_stack) < MaxDepth
    /\ tr_stack' = Advance
    /\ tr_visits' = [tr_visits EXCEPT ![NextChild] = @ + 1]
    /\ tr_found' = tr_found + (IF tr_graph[NextChild].kind = "leaf" THEN 1 ELSE 0)
    /\ UNCHANGED <<tr_pc, tr_graph, tr_others>>

\* the call that would exceed the interpreter's recursion limit raises
\* RecursionError; the except of the calling frame catches it, which ends
\* that frame's for loop
TrRecursionError ==
    /\ tr_pc = "run"
    /\ tr_stack # <<>>
    /\ HasNext
    /\ Len(tr_stack) >= MaxDepth
    /\ tr_stack' = SubSeq(tr_stack, 1, Len(tr_stack) - 1)
    /\ tr_pc' = IF Len(tr_stack) = 1 THEN "done" ELSE "run"
    /\ UNCHANGED <<tr_graph, tr_visits, tr_found, tr_others>>

\* the for loop of a call is exhausted
TrReturn ==
    /\ tr_pc = "run"
    /\ tr_stack # <<>>
    /\ ~HasNext
    /\ tr_stack' = SubSeq(tr_stack, 1, Len(tr_stack) - 1)
    /\ tr_pc' = IF Len(tr_stack) = 1 THEN "done" ELSE "run"
    /\ UNCHANGED <<tr_graph, tr_visits, tr_found, tr_others>>

(***************************************************************************)
(* epub_processor.py: the chapter of one content item                      *)
(***************************************************************************)
HeadingTags == <<"h1", "h2", "h3", "title">>

\* the text of the first tag of the k-th kind: no such tag, a tag with blank
\* text, or a tag with text (a different text for each kind of tag)
TagTexts(k) == {<<>>, <<" ">>, <<" ", "h", Digits[k + 1], " ">>}

\* soup.find_all(tag_name) for the tags HeadingTags[from], ... in turn: the
\* first text that is not empty after get_text(strip=True)
RECURSIVE HeadingFrom(_, _)
HeadingFrom(item, from) ==
    IF from > Len(HeadingTags) THEN <<>>
    ELSE LET text == Strip(item.tags[from], PyWhitespace)
         IN  IF text # <<>> THEN text ELSE HeadingFrom(item, from + 1)

_extract_title_from_content(item) ==
    IF item.parse_raises THEN <<>>
    ELSE IF HeadingFrom(item, 1) # <<>> THEN HeadingFrom(item, 1)
    ELSE IF item.has_file_name THEN Stem(item.file_name)
    ELSE <<>>

NoContentChapter == [made |-> FALSE, title |-> <<>>, confidence_score |-> 0]

\* the body of the item loop of _extract_chapters_from_content
ContentChapter(item) ==
    IF ~item.has_content THEN NoContentChapter
    ELSE LET title == _extract_title_from_content(item)
         IN  IF title = <<>> THEN NoContentChapter
             ELSE [made |-> TRUE, title |-> sanitize(title),
                   confidence_score |-> CONF_CONTENT]

ContentItems ==
    [has_content : BOOLEAN, parse_raises : BOOLEAN, has_file_name : BOOLEAN,
     file_name : {ItemName(1)},
     tags : {<<a, b, c, d>> : a \in TagTexts(1), b \in TagTexts(2),
                              c \in TagTexts(3), d \in TagTexts(4)}]

CtIdle ==
    /\ ct_pc = "idle"
    /\ ct_item = <<>>
    /\ ct_out = NoContentChapter

CtInit ==
    /\ ct_pc = "call"
    /\ ct_item \in ContentItems
    /\ ct_out = NoContentChapter

ExtractContentChapter ==
    /\ ct_pc = "call"
    /\ ct_out' = ContentChapter(ct_item)
    /\ ct_pc' = "done"
    /\ UNCHANGED <<ct_item, ct_others>>

(***************************************************************************)
(* Specifications.                                                         *)
(***************************************************************************)
InitSanitize == SanInit /\ NmIdle /\ AnIdle /\ EuIdle /\ SpIdle /\ CwIdle /\ GiIdle /\ fs = EmptyFs /\ MdIdle /\ TrIdle /\ CtIdle
SpecSanitize == InitSanitize /\ [][SanNext]_vars

InitChapterName == NmInit /\ SanIdle /\ AnIdle /\ EuIdle /\ SpIdle /\ CwIdle /\ GiIdle /\ fs = EmptyFs /\ MdIdle /\ TrIdle /\ CtIdle
SpecChapterName == InitChapterName /\ [][NmNext]_vars

InitAnalyze == AnInit /\ SanIdle /\ NmIdle /\ EuIdle /\ SpIdle /\ CwIdle /\ GiIdle /\ fs = EmptyFs /\ MdIdle /\ TrIdle /\ CtIdle
SpecAnalyze == InitAnalyze /\ [][AnNext]_vars

InitUnique == EuInit /\ SanIdle /\ NmIdle /\ AnIdle /\ SpIdle /\ CwIdle /\ GiIdle /\ MdIdle /\ TrIdle /\ CtIdle
UniqueNext == EuCheckOriginal \/ EuProbe
SpecUnique == InitUnique /\ [][UniqueNext]_vars
\* the call runs to completion on its thread: an iteration that can run does.
\* The second conjunct is WF_vars(EuProbe) with ENABLED <<EuProbe>>_vars
\* written out: EuProbe can run exactly in the loop, and always changes
\* eu_pc or eu_counter.
EuProbeEnabled == eu_pc = "loop"
SpecUniqueFair ==
    /\ SpecUnique
    /\ WF_vars(EuCheckOriginal)
    /\ ([]<>(~EuProbeEnabled) \/ []<><<EuProbe>>_vars)

InitSplit == SpInit /\ EuIdle /\ SanIdle /\ NmIdle /\ AnIdle /\ CwIdle /\ GiIdle /\ MdIdle /\ TrIdle /\ CtIdle
SplitNext ==
    \/ PdfSplitSetup
    \/ PdfChapterSkip
    \/ PdfChapterName
    \/ PdfChapterRaise
    \/ PdfChapterSave
    \/ EpubSplitSetup
    \/ EpubChapterSkip
    \/ EpubChapterName
    \/ EpubChapterRaise
    \/ EpubChapterSave
    \/ EuCheckOriginal
    \/ EuProbe
    \/ SplitReturn
SpecSplit == InitSplit /\ [][SplitNext]_vars

CancelNext ==
    \/ PdfSplitSetup
    \/ PdfChapterSkip
    \/ PdfChapterName
    \/ PdfChapterRaise
    \/ PdfChapterSave
    \/ EpubSplitSetup
    \/ EpubChapterSkip
    \/ EpubChapterName
    \/ EpubChapterRaise
    \/ EpubChapterSave
    \/ EuCheckOriginal
    \/ EuProbe
    \/ SplitReturn
    \/ RequestCancel
SpecCancel == InitSplit /\ [][CancelNext]_vars

InitSplitFull == SpFullInit /\ EuIdle /\ SanIdle /\ NmIdle /\ AnIdle /\ CwIdle /\ GiIdle /\ MdIdle /\ TrIdle /\ CtIdle
SplitFullNext ==
    \/ PdfSplitSetup
    \/ PdfChapterSkip
    \/ PdfChapterName
    \/ PdfChapterRaise
    \/ PdfChapterSave
    \/ EuCheckOriginal
    \/ EuProbe
    \/ SplitReturn
SpecSplitFull == InitSplitFull /\ [][SplitFullNext]_vars

InitConcurrent == CwInit /\ GiIdle /\ EuIdle /\ SpIdle /\ SanIdle /\ NmIdle /\ AnIdle /\ MdIdle /\ TrIdle /\ CtIdle
ConcurrentNext == CheckOriginal \/ Probe \/ Write
SpecConcurrent == InitConcurrent /\ [][ConcurrentNext]_vars

InitItems == GiInit /\ CwIdle /\ EuIdle /\ SpIdle /\ SanIdle /\ NmIdle /\ AnIdle /\ fs = EmptyFs /\ MdIdle /\ TrIdle /\ CtIdle
ItemsNext == GetChapterItems
SpecItems == InitItems /\ [][ItemsNext]_vars

InitLoad == MdInit /\ GiIdle /\ CwIdle /\ EuIdle /\ SpIdle /\ SanIdle /\ NmIdle /\ AnIdle /\ fs = EmptyFs /\ TrIdle /\ CtIdle
LoadNext == ReadPdfDocument \/ ReadEpubDocument
SpecLoad == InitLoad /\ [][LoadNext]_vars

InitTraverse == TrInit /\ MdIdle /\ GiIdle /\ CwIdle /\ EuIdle /\ SpIdle /\ SanIdle /\ NmIdle /\ AnIdle /\ fs = EmptyFs /\ CtIdle
TraverseNext == TrDescend \/ TrLeaf \/ TrRecursionError \/ TrReturn
SpecTraverse == InitTraverse /\ [][TraverseNext]_vars

InitContent == CtInit /\ TrIdle /\ MdIdle /\ GiIdle /\ CwIdle /\ EuIdle /\ SpIdle /\ SanIdle /\ NmIdle /\ AnIdle /\ fs = EmptyFs
ContentNext == ExtractContentChapter
SpecContent == InitContent /\ [][ContentNext]_vars

(***************************************************************************)
(* Properties.                                                             *)
(***************************************************************************)
Analysed == an_pc = "normalized"

PdfBounded == an_doc.fmt = "pdf" /\ an_bounded

Larger(a, b) == IF a < b THEN b ELSE a

\* C1: after analyze_chapters returns, the i-th chapter of the list has
\* chapter_number i, for both formats and both tiers, whatever numbers the
\* detector gave the chapters.
C1_NumbersContiguous ==
    Analysed => \A i \in 1..Len(an_chapters) : an_chapters[i].chapter_number = i

\* C1 witness: the EPUB content tier skipped the first content document, so
\* the detector numbered the only chapter 2, and it is returned as chapter 1.
C1_Witness ==
    /\ Analysed
    /\ an_tier = "content"
    /\ Len(an_chapters) = 1
    /\ an_chapters[1].xpath = ItemName(2)
    /\ an_chapters[1].chapter_number = 1

\* C2 as claimed: after _set_chapter_end_pages every chapter ends on the page
\* before the next chapter's start, and the last chapter ends on the last
\* page, for any start pages.
C2_Contiguous_Claimed ==
    PdfBounded =>
        \A i \in 1..Len(an_chapters) :
            IF i < Len(an_chapters)
            THEN an_chapters[i].end_page + 1 = an_chapters[i + 1].start_page
            ELSE an_chapters[i].end_page = an_doc.total_pages

\* C2 amended: a chapter ends on the page before the next chapter's start
\* when the next chapter starts on a later page, and on its own start page
\* otherwise; the last chapter ends on the last page of the document when it
\* starts within the document, and on its own start page otherwise.
C2_ContiguousWhereAscending ==
    PdfBounded =>
        \A i \in 1..Len(an_chapters) :
            LET ch == an_chapters[i]
                limit == IF i < Len(an_chapters)
                         THEN an_chapters[i + 1].start_page - 1
                         ELSE an_doc.total_pages
            IN  /\ ch.start_page <= limit => ch.end_page = limit
                /\ ch.start_page > limit => ch.end_page = ch.start_page

\* C2 witness: two outline entries on the same page and the last one beyond
\* the last page of the document.
C2_Witness ==
    /\ PdfBounded
    /\ an_tier = "outline"
    /\ Len(an_chapters) = 3
    /\ an_chapters[1].start_page = an_chapters[2].start_page
    /\ an_chapters[1].end_page = an_chapters[1].start_page
    /\ an_chapters[3].start_page > an_doc.total_pages
    /\ an_chapters[2].end_page + 1 = an_chapters[3].start_page

\* C3: every PDF chapter of the detector satisfies 1 <= start_page <= end_page
\* (is_valid_pdf_chapter), for any detected start pages and page count.
C3_ValidPdfChapters ==
    (an_doc.fmt = "pdf" /\ an_pc \in {"structural", "resolved", "heuristic", "normalized"})
        => \A i \in 1..Len(an_chapters) : is_valid_pdf_chapter(an_chapters[i])

\* C3 witness: outline entries in descending page order, where the end page
\* computed from the next entry lies before the start page.
C3_Witness ==
    /\ PdfBounded
    /\ an_pc = "normalized"
    /\ Len(an_chapters) = 2
    /\ an_chapters[1].start_page > an_chapters[2].start_page + 1
    /\ is_valid_pdf_chapter(an_chapters[1])

\* C4 as claimed: sanitize_filename is idempotent.
C4_Idempotent_Claimed == san_pc = "twice" => san_again = san_out

\* C5: sanitize_filename never returns an empty name, a name with a character
\* of the invalid set, or a name whose stem is a reserved device name in any
\* letter case.
SafeName(s) ==
    /\ s # <<>>
    /\ \A i \in 1..Len(s) : s[i] \notin INVALID_FILENAME_CHARS
    /\ Upper(Stem(s)) \notin RESERVED_NAMES

C5_SanitizedIsSafe ==
    /\ san_pc \in {"once", "twice"} => SafeName(san_out)
    /\ san_pc = "twice" => SafeName(san_again)

\* C5 witness: a reserved name followed by an invalid character.
C5_Witness ==
    /\ san_pc = "once"
    /\ san_in = <<"C", "O", "N", "<">>
    /\ san_out = <<"_", "C", "O", "N">>

\* C8 as claimed: the name is number, "_", sanitized title and extension when
\* the title is not empty, and sanitized document title, "_", the chapter
\* label and extension otherwise.
C8_Name_Claimed ==
    nm_pc = "done" =>
        nm_out = IF nm_args.chapter_title # <<>>
                 THEN Format02d(nm_args.chapter_number) \o <<"_">>
                      \o sanitize(nm_args.chapter_title) \o nm_args.extension
                 ELSE sanitize(nm_args.document_title) \o <<"_", Dai>>
                      \o Format02d(nm_args.chapter_number) \o <<Shou>>
                      \o nm_args.extension

\* C8 amended: the title form is used when the title has a character that is
\* not white space, the document-title form otherwise; the extension is
\* appended unless the name already ends with it in any letter case; a
\* result of more than 200 characters is cut to the first 190 characters of
\* the name without its last len(extension) characters, "..." and the
\* extension.
C8_NameAmended ==
    nm_pc = "done" =>
        LET a == nm_args
            num == Format02d(a.chapter_number)
            titled == \E i \in 1..Len(a.chapter_title) :
                          a.chapter_title[i] \notin PyWhitespace
            base == IF titled
                    THEN num \o <<"_">> \o sanitize(a.chapter_title)
                    ELSE sanitize(a.document_title) \o <<"_", Dai>> \o num \o <<Shou>>
            named == IF EndsWith(Lower(base), Lower(a.extension))
                     THEN base ELSE base \o a.extension
            cut == SubSeq(named, 1, Len(named) - Len(a.extension))
        IN  IF Len(named) <= NAME_LIMIT
            THEN nm_out = named
            ELSE nm_out = SubSeq(cut, 1, NAME_KEEP) \o Dots3 \o a.extension

\* C8 witness: a title of white space only gets the document-title form.
C8_Witness ==
    /\ nm_pc = "done"
    /\ nm_args.chapter_title = <<" ", TAB>>
    /\ nm_args.document_title = <<"D", "o", "c">>
    /\ nm_args.chapter_number = 1
    /\ nm_args.extension = ExtPdf
    /\ nm_out = <<"D", "o", "c", "_", Dai, "0", "1", Shou>> \o ExtPdf

(***************************************************************************)
(* ensure_unique_filename                                                  *)
(***************************************************************************)
Returned == eu_pc = "done"

NumberedPath(n) ==
    PathOf(eu_path.parent, NumberedName(Stem(eu_path.name), n, Suffix(eu_path.name)))

TimePaths ==
    {PathOf(eu_path.parent, TimeName(Stem(eu_path.name), ts, Suffix(eu_path.name))) :
        ts \in Timestamps}

AllNumberedExist == \A n \in 1..MAX_COUNTER : Exists(fs, NumberedPath(n))

\* the directory holds the path and its numbered names 1..9999 (fs.bulk)
EveryNumberTaken ==
    /\ Exists(fs, eu_path)
    /\ fs.bulk.parent = eu_path.parent
    /\ fs.bulk.stem = Stem(eu_path.name)
    /\ fs.bulk.suffix = Suffix(eu_path.name)
    /\ fs.bulk.upto >= MAX_COUNTER

\* C6: a path that does not exist is returned unchanged; when the path exists
\* and some "{stem} (n){suffix}" with 1 <= n <= 9999 is unused, the result is
\* that name in the same directory for the smallest such n, and it does not
\* exist.
C6_SmallestUnusedNumber ==
    Returned =>
        /\ ~Exists(fs, eu_path) => eu_result = eu_path
        /\ (Exists(fs, eu_path) /\ ~AllNumberedExist) =>
               \E n \in 1..MAX_COUNTER :
                   /\ eu_result = NumberedPath(n)
                   /\ eu_result.parent = eu_path.parent
                   /\ ~Exists(fs, eu_result)
                   /\ \A m \in 1..(n - 1) : Exists(fs, NumberedPath(m))

\* the name and "(1)" are taken, possibly in the other directory too: "(2)"
C6_Witness ==
    /\ Returned
    /\ Exists(fs, eu_path)
    /\ Exists(fs, NumberedPath(1))
    /\ eu_result = NumberedPath(2)

\* C7: the call always returns; no number above 9999 is ever probed, and when
\* the path and every "{stem} (n){suffix}", n = 1..9999, exist, the result is
\* the time-based name "{stem}_{timestamp}{suffix}".
C7_TerminatesWithTimeName ==
    /\ <>Returned
    /\ [](eu_pc = "loop" => eu_counter \in 1..MAX_COUNTER)
    /\ []((Returned /\ EveryNumberTaken) =>
             (eu_counter = MAX_COUNTER + 1 /\ eu_result \in TimePaths))

C7_Witness ==
    /\ Returned
    /\ EveryNumberTaken
    /\ eu_counter = MAX_COUNTER + 1
    /\ eu_result \in TimePaths

(***************************************************************************)
(* split_pdf_by_chapters, split_epub_by_chapters                           *)
(***************************************************************************)
ChapterFailures == {"raise", "open_fails", "write_fails", "no_items"}

SucceededChapters == SelectSeq(sp_chapters, LAMBDA c : c.split_status = SUCCESS)

SucceededPaths == [i \in 1..Len(SucceededChapters) |-> SucceededChapters[i].output_file_path]

\* C9: once setup has succeeded, a chapter whose extraction fails (an
\* exception or a failed save) has split_status ERROR, the loop goes on to the
\* chapters after it in list order, and the split returns, never raises, with
\* the paths of the chapters that succeeded.
C9_ChapterFailureIsContained ==
    /\ \A k \in 1..Len(sp_events) :
           sp_events[k] \in ChapterFailures => sp_chapters[k].split_status = ERROR
    /\ sp_pc = "raised" => sp_events = <<>>
    /\ sp_pc \in {"chapter", "unique"} => Len(sp_events) = sp_k - 1
    /\ sp_pc = "returned" =>
           /\ Len(sp_events) = Len(sp_chapters)
           /\ sp_output_files = SucceededPaths

\* the first chapter failed, the second was written, and the split returned
C9_Witness ==
    /\ sp_pc = "returned"
    /\ Len(sp_events) = 2
    /\ sp_events[1] \in ChapterFailures
    /\ sp_events[2] = "ok"
    /\ sp_chapters[1].split_status = ERROR
    /\ sp_output_files = <<sp_chapters[2].output_file_path>>

\* C10: with settings that SplitSettings.validate() rejects (output directory
\* empty or missing, naming pattern empty, XPATH detection without a
\* custom_xpath) a split fails at once: it raises before any chapter is
\* processed and leaves the file system as it was.
C10_Validated_Claimed ==
    [][(sp_pc = "start" /\ validate(sp_settings, fs) # <<>>) =>
          (sp_pc' = "raised" /\ fs' = fs)]_vars

Untouched(chapter) ==
    chapter.split_status = PENDING /\ chapter.output_file_path = NoPath

\* C11: when a split raises (output directory invalid, uncreatable or
\* unwritable, or source unopenable) no chapter work has happened: no output
\* file has been written, and every chapter still has its split_status and
\* output_file_path.
C11_SetupFailureLeavesNoTrace ==
    sp_pc = "raised" =>
        /\ sp_output_files = <<>>
        /\ \A k \in 1..Len(sp_chapters) : Untouched(sp_chapters[k])
        /\ \A p \in DOMAIN fs.files : fs.files[p] = OldContent

\* the output directory was created, and then the source could not be opened
C11_Witness ==
    /\ sp_pc = "raised"
    /\ sp_settings.output_directory = "new"
    /\ "new" \in fs.dirs
    /\ Len(sp_chapters) = MaxChapters
    /\ \E k \in 1..Len(sp_chapters) : is_valid_pdf_chapter(sp_chapters[k])

\* C12: analyze_chapters never returns a chapter list for an unreadable
\* document (it raises ChapterAnalysisError instead), for the PDF and for the
\* EPUB detector; it returns only for a readable document.
C12_UnreadableRaises_Claimed == an_pc = "normalized" => an_doc.readable

AllWritten == \A w \in Workers : cw_pc[w] = "done"

\* C13: workers that write into one output directory never obtain the same
\* resolved path, and no worker's output file is overwritten by another
\* worker: when all have written, the paths differ and each holds what its
\* worker wrote.
C13_AtomicReservation_Claimed ==
    AllWritten =>
        /\ \A v, w \in Workers : v # w => cw_result[v] # cw_result[w]
        /\ \A w \in Workers : fs.files[cw_result[w]] = WorkerContent(w)

\* C14: once a cancel of the document has been requested, no chapter's
\* extraction begins: the loop does not go on to name and write a chapter.
C14_CancelHonoured_Claimed ==
    [][(sp_cancel /\ sp_pc = "chapter") => sp_pc' # "unique"]_vars

\* C15: when an item of the book is named exactly as the chapter's
\* reference, _get_chapter_items returns an item with that name, whatever the
\* order of the items; containment decides only when no name is equal.
C15_ExactMatchFirst_Claimed ==
    (gi_pc = "done" /\ \E i \in 1..Len(gi_args.all_items) : gi_args.all_items[i] = gi_args.xpath)
        => gi_out = <<gi_args.xpath>>

\* chapter k of an EPUB split refers to an item, and no item of the source,
\* which has one at least, matches the reference
Unmatched(k) ==
    /\ sp_doc.file_type = "epub"
    /\ sp_doc.items # <<>>
    /\ sp_chapters[k].xpath # <<>>
    /\ ItemMatches(sp_doc.items, sp_chapters[k].xpath) = {}

FirstItemContent == [kind |-> "epub", body |-> <<sp_doc.items[1]>>]

PdfWritten(k) == sp_doc.file_type = "pdf" /\ sp_events[k] = "ok"

OutputPages(k) == fs.files[sp_chapters[k].output_file_path].body

Ascending(s) == \A i \in 1..(Len(s) - 1) : s[i] < s[i + 1]

PagesInRange(k) ==
    {p \in sp_chapters[k].start_page..sp_chapters[k].end_page :
        1 <= p /\ p <= sp_doc.total_pages}

NativeExtension == IF sp_doc.file_type = "pdf" THEN ExtPdf ELSE ExtEpub

\* C18: whatever output_format asks for, the extractor works in the format of
\* its source: past setup the output extension is ".pdf" for the PDF
\* extractor and ".epub" for the EPUB extractor, and every file it returns or
\* writes has that extension.
C18_NativeExtension ==
    /\ sp_pc \in {"chapter", "unique", "returned"} => sp_ext = NativeExtension
    /\ \A i \in 1..Len(sp_output_files) :
           Suffix(sp_output_files[i].name) = NativeExtension
    /\ \A p \in DOMAIN fs.files :
           fs.files[p] # OldContent => Suffix(p.name) = NativeExtension

\* a PDF source with output_format EPUB: the split returns files
C18_Witness ==
    /\ sp_pc = "returned"
    /\ sp_doc.file_type = "pdf"
    /\ sp_settings.output_format = "epub"
    /\ requires_format_conversion(sp_settings, sp_doc.file_type)
    /\ Len(sp_output_files) = MaxChapters

\* the page each bookmark resolves to
BookmarkPages ==
    [i \in 1..Len(an_outline) |-> _safe_get_page_number(an_outline[i], an_doc.total_pages)]

AscendingBookmarks ==
    /\ Analysed
    /\ PdfBounded
    /\ Len(an_outline) >= 1
    /\ \A i \in 1..Len(an_outline) : BookmarkPages[i] \in 1..an_doc.total_pages
    /\ Ascending(BookmarkPages)

\* C19: bookmarks that resolve to strictly ascending pages p1 < ... < pk of a
\* T-page PDF give exactly k chapters, numbered 1..k, with ranges
\* (p_i, p_{i+1} - 1) for i < k and (p_k, T) for the last.
C19_BookmarksToRanges ==
    AscendingBookmarks =>
        /\ an_tier = "outline"
        /\ Len(an_chapters) = Len(an_outline)
        /\ \A i \in 1..Len(an_chapters) :
               /\ an_chapters[i].chapter_number = i
               /\ an_chapters[i].start_page = BookmarkPages[i]
               /\ an_chapters[i].end_page =
                      IF i < Len(an_chapters) THEN BookmarkPages[i + 1] - 1
                      ELSE an_doc.total_pages

\* bookmarks on every page of the document
C19_Witness ==
    /\ AscendingBookmarks
    /\ Len(an_outline) = MaxLeaves
    /\ Len(an_chapters) = MaxLeaves
    /\ an_chapters[1].start_page = 1
    /\ an_chapters[1].end_page = 1
    /\ an_chapters[MaxLeaves].end_page = an_doc.total_pages

\* the Link entries of a table of contents, in document order
RECURSIVE TocLinkEntries(_)
TocLinkEntries(items) ==
    IF items = <<>> THEN <<>>
    ELSE LET item == Head(items)
         IN  (IF item.kind = "link" THEN <<item>> ELSE TocLinkEntries(item.children))
             \o TocLinkEntries(Tail(items))

\* C20 as claimed: an EPUB whose table of contents lists link entries gives
\* exactly one chapter per link entry, numbered 1..N in the order of the
\* entries, however the entries are nested in sections.
C20_OneChapterPerLink_Claimed ==
    (Analysed /\ an_doc.fmt = "epub" /\ TocLinkEntries(an_toc) # <<>>) =>
        LET links == TocLinkEntries(an_toc)
        IN  /\ an_tier = "toc"
            /\ Len(an_chapters) = Len(links)
            /\ \A i \in 1..Len(links) :
                   /\ an_chapters[i].chapter_number = i
                   /\ an_chapters[i].xpath = IF links[i].raises THEN <<>> ELSE links[i].href

\* the pages whose text matches at least one heading pattern
MatchingPages == {p \in 1..Len(an_texts) : PageMatches(an_texts[p])}

TextTierRan == Analysed /\ an_doc.fmt = "pdf" /\ an_tier = "text"

\* C21: when the text tier of a PDF ran, the list has exactly one chapter for
\* each page whose text matches a heading pattern, each with confidence 0.7,
\* in strictly ascending order of start_page.
C21_OneChapterPerMatchingPage ==
    TextTierRan =>
        /\ Len(an_chapters) = Cardinality(MatchingPages)
        /\ {an_chapters[i].start_page : i \in 1..Len(an_chapters)} = MatchingPages
        /\ \A i \in 1..Len(an_chapters) : an_chapters[i].confidence_score = CONF_TEXT
        /\ Ascending([i \in 1..Len(an_chapters) |-> an_chapters[i].start_page])

\* two matching pages, one of them matching every pattern
C21_Witness ==
    /\ TextTierRan
    /\ Cardinality(MatchingPages) = 2
    /\ \E p \in MatchingPages : an_texts[p].hits = 1..MaxPatterns
    /\ Len(an_chapters) = 2

Loaded == md_pc = "loaded"

\* the text of a metadata entry that the extraction could read, or <<>>
Extracted(field) ==
    IF /\ md_file.readable
       /\ ~(md_file.fmt = "pdf" /\ md_file.count_fails)
       /\ md_file.has_meta
       /\ field.present
    THEN Strip(field.value, PyWhitespace)
    ELSE <<>>

CountExtracted == md_file.readable /\ ~md_file.count_fails

CountKeys == {"page_count", "estimated_pages"}

\* C22 as claimed: after a document is loaded, its title is the extracted
\* title when there is one and the stem of the file name otherwise, its
\* author is "unknown" when none could be extracted, a page or item count
\* that could not be extracted is 0, and loading an existing file does not
\* raise because of the metadata.
C22_Defaults_Claimed ==
    /\ (md_file.exists => md_pc # "raised")
    /\ Loaded =>
         /\ md_doc.title = IF Extracted(md_file.title) # <<>> THEN Extracted(md_file.title)
                           ELSE Stem(md_file.name)
         /\ md_doc.author = IF Extracted(md_file.author) # <<>> THEN Extracted(md_file.author)
                            ELSE Unknown
         /\ ~CountExtracted =>
               \A k \in CountKeys \cap DOMAIN md_doc.metadata : md_doc.metadata[k] = 0

\* the steps of analyze_chapters
TierSteps ==
    {<<"init", "structural">>, <<"init", "error">>, <<"structural", "resolved">>,
     <<"structural", "heuristic">>, <<"resolved", "normalized">>,
     <<"heuristic", "normalized">>}

\* the confidence scores each tier gives
TierConfidences(tier) ==
    CASE tier = "outline" -> {CONF_OUTLINE}
      [] tier = "text" -> {CONF_TEXT}
      [] tier = "toc" -> {CONF_TOC, CONF_TOC_FAILED}
      [] tier = "content" -> {CONF_CONTENT}
      [] OTHER -> {}

\* C23: analyze_chapters goes Init -> StructuralAttempted -> (Resolved |
\* HeuristicAttempted) -> Normalized; the heuristic tier runs exactly when
\* the structural tier returned no chapter, its result replaces nothing and
\* is never mixed with a structural result, and the list returned is the
\* normalized list of the one tier that produced it.
C23_TierOrder ==
    [][/\ <<an_pc, an_pc'>> \in TierSteps
       /\ (an_pc' = "heuristic") = (an_pc = "structural" /\ an_chapters = <<>>)
       /\ (an_pc' = "resolved") =
             (an_pc = "structural" /\ an_chapters # <<>> /\ an_chapters' = an_chapters
              /\ an_tier' = an_tier)
       /\ an_pc' = "normalized" =>
             (an_chapters' = _normalize_chapter_numbers(an_chapters) /\ an_tier' = an_tier)
       /\ \A i \in 1..Len(an_chapters') :
             an_chapters'[i].confidence_score \in TierConfidences(an_tier')]_vars

\* the text tier ran after an outline that gave no chapter, and its list was
\* normalized
C23_Witness ==
    /\ Analysed
    /\ an_tier = "text"
    /\ Len(an_outline) >= 1
    /\ Len(an_chapters) >= 2

\* C24 as claimed: the traversal of an outline or TOC makes at most one
\* call on each node, also when a group contains itself, an ancestor or a
\* node that another group contains.
C24_VisitedAtMostOnce_Claimed ==
    tr_pc # "idle" => \A n \in Nodes : tr_visits[n] <= 1

\* the leaves of the structure the structural tier read
StructuralLeaves ==
    IF an_doc.fmt = "pdf" THEN Len(an_outline) ELSE Len(TocLinkEntries(an_toc))

\* C25 as claimed: when the structural tier has run on a readable document,
\* its list has as many chapters as the outline or TOC has leaves, and every
\* chapter has a confidence between 0.8 and 0.9.
C25_EveryLeafAChapter_Claimed ==
    (an_pc = "structural" /\ an_doc.readable) =>
        /\ Len(an_chapters) = StructuralLeaves
        /\ \A i \in 1..Len(an_chapters) :
               an_chapters[i].confidence_score \in CONF_TOC..CONF_OUTLINE

\* the heading texts of the item, stripped, in priority order
StrippedHeadings ==
    [k \in 1..Len(HeadingTags) |-> Strip(ct_item.tags[k], PyWhitespace)]

HasHeading == \E k \in 1..Len(HeadingTags) : StrippedHeadings[k] # <<>>

FirstHeading ==
    StrippedHeadings[MinOf({k \in 1..Len(HeadingTags) : StrippedHeadings[k] # <<>>})]

ContentParsed == ct_pc = "done" /\ ct_item.has_content /\ ~ct_item.parse_raises

\* C26 as claimed: the chapter of a content item takes the first non-empty
\* heading text in the order h1, h2, h3, title, with confidence 0.6; an item
\* without heading gives a chapter titled with the stem of its file name,
\* with confidence 0.3.
C26_HeadingOrStem_Claimed ==
    ContentParsed =>
        IF HasHeading
        THEN /\ ct_out.made
             /\ ct_out.title = sanitize(FirstHeading)
             /\ ct_out.confidence_score = CONF_CONTENT
        ELSE ct_item.has_file_name =>
               /\ ct_out.made
               /\ ct_out.title = sanitize(Stem(ct_item.file_name))
               /\ ct_out.confidence_score = CONF_TOC_FAILED

\* the chapters the loop passes over: 'if not chapter.is_valid_pdf_chapter',
\* 'if not chapter.xpath'
Skipped(chapter) ==
    IF sp_doc.file_type = "pdf" THEN ~is_valid_pdf_chapter(chapter)
    ELSE chapter.xpath = <<>>

\* C27 as claimed: when a split returns, every chapter of the input list has
\* split_status SUCCESS or ERROR, and the returned list is the
\* output_file_path of the SUCCESS chapters in chapter order.
C27_NonePending_Claimed ==
    sp_pc = "returned" =>
        /\ \A k \in 1..Len(sp_chapters) : sp_chapters[k].split_status \in {SUCCESS, ERROR}
        /\ sp_output_files = SucceededPaths

\* C27, amended: when a split returns, every chapter that the loop did not
\* skip has split_status SUCCESS or ERROR, a skipped chapter (invalid page
\* range, empty xpath) still has the status and path it came with, and the
\* returned list is the output_file_path of the SUCCESS chapters in chapter
\* order.
C27_NonePendingUnlessSkipped ==
    sp_pc = "returned" =>
        /\ \A k \in 1..Len(sp_chapters) :
               IF Skipped(sp_chapters[k])
               THEN Untouched(sp_chapters[k])
               ELSE sp_chapters[k].split_status \in {SUCCESS, ERROR}
        /\ sp_output_files = SucceededPaths

\* a skipped chapter, then a written one
C27_Witness ==
    /\ sp_pc = "returned"
    /\ Len(sp_chapters) = 2
    /\ Skipped(sp_chapters[1])
    /\ sp_chapters[1].split_status = PENDING
    /\ sp_chapters[2].split_status = SUCCESS
    /\ sp_output_files = <<sp_chapters[2].output_file_path>>

\* the step opens the output path for writing
OpensOutput ==
    /\ sp_pc = "unique"
    /\ sp_pc' # "unique"
    /\ sp_events'[Len(sp_events')] \in {"ok", "write_fails"}

Distinct(s) == \A i \in 1..Len(s) : \A j \in 1..Len(s) : i # j => s[i] # s[j]

\* C28 as claimed: in a sequential split every path that is written did not
\* exist just before the write, and the paths returned are pairwise distinct,
\* however many colliding names the directory holds.
C28_NoOverwrite_Claimed ==
    [][/\ OpensOutput => ~Exists(fs, eu_result)
       /\ Distinct(sp_output_files')]_vars

\* C29 as claimed: every PDF chapter marked SUCCESS has an output file with
\* at least one page, also when its start_page lies beyond the last page of
\* the source.
C29_NonEmptyOutput_Claimed ==
    \A k \in 1..Len(sp_events) :
        (PdfWritten(k) /\ sp_chapters[k].split_status = SUCCESS) =>
            Len(OutputPages(k)) >= 1

====
